---- MODULE Spec2Model ----
(***************************************************************************)
(* A model of the legendql lowering component: the clause sequence of a    *)
(* query and its lowering to SQL text by the DuckDB dialect                *)
(* (dialect/duckdb/dialect.py) and by the SQLGlot dialect                  *)
(* (dialect/sqlglot/dialect.py).                                           *)
(*                                                                         *)
(* Text.  A Python str is modelled as a sequence of atoms.  Every name,    *)
(* number and lower-case word is spelled out one character per atom, so    *)
(* that str.replace works on it as it does in Python; an SQL keyword such  *)
(* as "SELECT " is one atom (no pattern the code replaces can match        *)
(* inside a keyword, except " AS " followed by the first letter of an      *)
(* alias, which is why " AS " is one atom followed by the alias's          *)
(* characters).                                                            *)
(***************************************************************************)
EXTENDS Integers, Sequences, FiniteSets, TLC

\* ------------------------------------------------------------------ bounds

\* The longest clause sequence handed to a runtime.
MaxClauses == 3

\* The number of further calls of executable_to_string after the first one.
MaxCalls == 2

\* The number of aggregations the helpers add to one GroupBy clause.
MaxAggregations == 2

\* ------------------------------------------------------------------ text

\* The spelling of every identifier the model's inputs and the code's own
\* literals use.
Chars(s) ==
  CASE s = "test_db"      -> <<"t","e","s","t","_","d","b">>
    [] s = "hr"           -> <<"h","r">>
    [] s = "table"        -> <<"t","a","b","l","e">>
    [] s = "table2"       -> <<"t","a","b","l","e","2">>
    [] s = "employees"    -> <<"e","m","p","l","o","y","e","e","s">>
    [] s = "departments"  -> <<"d","e","p","a","r","t","m","e","n","t","s">>
    [] s = "dept"         -> <<"d","e","p","t">>
    [] s = "column"       -> <<"c","o","l","u","m","n">>
    [] s = "column2"      -> <<"c","o","l","u","m","n","2">>
    [] s = "departmentId" -> <<"d","e","p","a","r","t","m","e","n","t","I","d">>
    [] s = "id"           -> <<"i","d">>
    [] s = "salary"       -> <<"s","a","l","a","r","y">>
    [] s = "bonus"        -> <<"b","o","n","u","s">>
    [] s = "paid"         -> <<"p","a","i","d">>
    [] s = "name"         -> <<"n","a","m","e">>
    [] s = "total"        -> <<"t","o","t","a","l">>
    [] s = "count"        -> <<"c","o","u","n","t">>
    [] s = "avg"          -> <<"a","v","g">>
    [] s = "cnt"          -> <<"c","n","t">>
    [] s = "rn"           -> <<"r","n">>
    [] s = "modulo"       -> <<"m","o","d","u","l","o">>
    [] s = "exponent"     -> <<"e","x","p","o","n","e","n","t">>
    [] s = "a"            -> <<"a">>
    [] s = "b"            -> <<"b">>
    [] s = "e"            -> <<"e">>
    [] s = "d"            -> <<"d">>
    [] s = "x"            -> <<"x">>
    [] s = "emp"          -> <<"e","m","p">>
    [] s = "base_query"   -> <<"b","a","s","e","_","q","u","e","r","y">>
    [] s = "query_"       -> <<"q","u","e","r","y","_">>
    [] s = "unknown"      -> <<"u","n","k","n","o","w","n">>
    [] s = "true"         -> <<"t","r","u","e">>
    [] s = "false"        -> <<"f","a","l","s","e">>
    [] s = "OVER"         -> <<"O","V","E","R">>
    [] s = "EXPONENT"     -> <<"E","X","P","O","N","E","N","T">>
    [] s = "STRINGCONCAT" -> <<"S","T","R","I","N","G","C","O","N","C","A","T">>
    [] s = "MIN"          -> <<"M","I","N">>

\* str(n) for a non-negative int.
Digit(n) ==
  CASE n = 0 -> "0" [] n = 1 -> "1" [] n = 2 -> "2" [] n = 3 -> "3"
    [] n = 4 -> "4" [] n = 5 -> "5" [] n = 6 -> "6" [] n = 7 -> "7"
    [] n = 8 -> "8" [] n = 9 -> "9"

RECURSIVE IntStr(_)
IntStr(n) == IF n < 10 THEN <<Digit(n)>> ELSE IntStr(n \div 10) \o <<Digit(n % 10)>>

\* ", ".join(parts)
RECURSIVE JoinComma(_)
JoinComma(parts) ==
  IF parts = <<>> THEN <<>>
  ELSE IF Len(parts) = 1 THEN parts[1]
  ELSE parts[1] \o <<", ">> \o JoinComma(Tail(parts))

\* Whether pat occurs in text at position i.
MatchAt(text, pat, i) ==
  /\ i + Len(pat) - 1 <= Len(text)
  /\ SubSeq(text, i, i + Len(pat) - 1) = pat

\* str.replace(pat, rep): every non-overlapping occurrence, left to right.
RECURSIVE ReplaceFrom(_, _, _, _)
ReplaceFrom(text, pat, rep, i) ==
  IF i > Len(text) THEN <<>>
  ELSE IF MatchAt(text, pat, i)
       THEN rep \o ReplaceFrom(text, pat, rep, i + Len(pat))
       ELSE <<text[i]>> \o ReplaceFrom(text, pat, rep, i + 1)

Replace(text, pat, rep) == ReplaceFrom(text, pat, rep, 1)

\* `pat in text`
Contains(text, pat) == \E i \in 1..Len(text) : MatchAt(text, pat, i)

\* .replace(" AS e", "").replace(" AS d", "")
StripAliasED(text) ==
  Replace(Replace(text, <<" AS ", "e">>, <<>>), <<" AS ", "d">>, <<>>)

\* ------------------------------------------------------------------ metamodel

NoneVal == [kind |-> "None"]

IntegerLiteral(v) == [kind |-> "IntegerLiteral", val |-> v]
StringLiteral(v) == [kind |-> "StringLiteral", val |-> v]
BooleanLiteral(v) == [kind |-> "BooleanLiteral", val |-> v]

ColumnReferenceExpression(n) == [kind |-> "ColumnReferenceExpression", name |-> n]
ColumnAliasExpression(a, r) ==
  [kind |-> "ColumnAliasExpression", alias |-> a, reference |-> r]
ComputedColumnAliasExpression(a, e) ==
  [kind |-> "ComputedColumnAliasExpression", alias |-> a, expression |-> e]
VariableAliasExpression(a) == [kind |-> "VariableAliasExpression", alias |-> a]
LiteralExpression(l) == [kind |-> "LiteralExpression", literal |-> l]
OperandExpression(e) == [kind |-> "OperandExpression", expression |-> e]
BinaryExpression(l, r, op) ==
  [kind |-> "BinaryExpression", left |-> l, right |-> r, operator |-> op]
UnaryExpression(op, e) ==
  [kind |-> "UnaryExpression", operator |-> op, expression |-> e]
FunctionExpression(f, ps) ==
  [kind |-> "FunctionExpression", function |-> f, parameters |-> ps]
MapReduceExpression(m, r) ==
  [kind |-> "MapReduceExpression", map_expression |-> m, reduce_expression |-> r]
LambdaExpression(ps, e) ==
  [kind |-> "LambdaExpression", parameters |-> ps, expression |-> e]
IfExpression(t, b, o) ==
  [kind |-> "IfExpression", test |-> t, body |-> b, orelse |-> o]
OrderByExpression(dir, e) ==
  [kind |-> "OrderByExpression", direction |-> dir, expression |-> e]
JoinExpression(on) == [kind |-> "JoinExpression", on |-> on]
GroupByExpression(sel, exprs, hav) ==
  [kind |-> "GroupByExpression", selections |-> sel, expressions |-> exprs,
   having |-> hav]

FromClause(db, t) == [kind |-> "FromClause", database |-> db, table |-> t]
SelectionClause(exprs) == [kind |-> "SelectionClause", expressions |-> exprs]
FilterClause(e) == [kind |-> "FilterClause", expression |-> e]
ExtendClause(exprs) == [kind |-> "ExtendClause", expressions |-> exprs]
RenameClause(aliases) == [kind |-> "RenameClause", columnAliases |-> aliases]
GroupByClause(e) == [kind |-> "GroupByClause", expression |-> e]
JoinClause(f, jt, on) ==
  [kind |-> "JoinClause", from_clause |-> f, join_type |-> jt, on_clause |-> on]
OrderByClause(ord) == [kind |-> "OrderByClause", ordering |-> ord]
LimitClause(v) == [kind |-> "LimitClause", value |-> v]
OffsetClause(v) == [kind |-> "OffsetClause", value |-> v]
DistinctClause(exprs) == [kind |-> "DistinctClause", expressions |-> exprs]

\* isinstance(x, K)
IsA(x, k) == x.kind = k

\* ------------------------------------------------------------------ DuckDB visitor

\* DuckDBExpressionVisitor.visit_*_operator
DuckOperator(op) ==
  CASE op = "EqualsBinaryOperator"            -> <<"=">>
    [] op = "NotEqualsBinaryOperator"         -> <<"!=">>
    [] op = "AddBinaryOperator"               -> <<"+">>
    [] op = "SubtractBinaryOperator"          -> <<"-">>
    [] op = "MultiplyBinaryOperator"          -> <<"*">>
    [] op = "DivideBinaryOperator"            -> <<"/">>
    [] op = "GreaterThanBinaryOperator"       -> <<">">>
    [] op = "LessThanBinaryOperator"          -> <<"<">>
    [] op = "GreaterThanEqualsBinaryOperator" -> <<">=">>
    [] op = "LessThanEqualsBinaryOperator"    -> <<"<=">>
    [] op = "AndBinaryOperator"               -> <<"AND">>
    [] op = "OrBinaryOperator"                -> <<"OR">>
    [] op = "NotUnaryOperator"                -> <<"NOT">>
    [] op = "InBinaryOperator"                -> <<"IN">>
    [] op = "NotInBinaryOperator"             -> <<"NOT IN">>
    [] op = "IsBinaryOperator"                -> <<"IS">>
    [] op = "IsNotBinaryOperator"             -> <<"IS NOT">>
    [] op = "BitwiseAndBinaryOperator"        -> <<"&">>
    [] op = "BitwiseOrBinaryOperator"         -> <<"|">>

\* class_name.endswith("Function")
EndsWithFunction(cls) ==
  cls \in {"CountFunction", "AverageFunction", "SumFunction", "ModuloFunction",
           "ExponentFunction", "OverFunction", "StringConcatFunction",
           "MinFunction"}

\* class_name[:-8].upper()
DerivedFunctionName(cls) ==
  CASE cls = "ExponentFunction"     -> Chars("EXPONENT")
    [] cls = "OverFunction"         -> Chars("OVER")
    [] cls = "StringConcatFunction" -> Chars("STRINGCONCAT")
    [] cls = "MinFunction"          -> Chars("MIN")

\* The func_name chosen by visit_function_expression.
DuckFuncName(cls) ==
  IF cls = "CountFunction" THEN <<"COUNT">>
  ELSE IF cls = "AverageFunction" THEN <<"AVG">>
  ELSE IF cls = "SumFunction" THEN <<"SUM">>
  ELSE IF cls = "ModuloFunction" THEN <<"MOD">>
  ELSE DerivedFunctionName(cls)

RECURSIVE DuckVisit(_)
RECURSIVE DuckVisitAll(_)

\* [x.visit(visitor, "") for x in xs]
DuckVisitAll(xs) ==
  IF xs = <<>> THEN <<>> ELSE <<DuckVisit(xs[1])>> \o DuckVisitAll(Tail(xs))

\* DuckDBExpressionVisitor.visit_function_expression
DuckVisitFunction(val) ==
  LET func_name == DuckFuncName(val.function)
      params == IF val.parameters # <<>> THEN DuckVisitAll(val.parameters)
                ELSE IF func_name \in {<<"AVG">>, <<"SUM">>, <<"COUNT">>}
                     THEN <<Chars("salary")>>
                     ELSE <<>>
  IN func_name \o <<"(">> \o JoinComma(params) \o <<")">>

\* DuckDBExpressionVisitor.visit_join_expression
DuckVisitJoinExpression(val) ==
  IF IsA(val.on, "BinaryExpression") /\ val.on.operator = "EqualsBinaryOperator"
  THEN LET left == StripAliasED(DuckVisit(val.on.left))
           right == StripAliasED(DuckVisit(val.on.right))
       IN IF /\ IsA(val.on.left, "ColumnReferenceExpression")
             /\ IsA(val.on.right, "ColumnReferenceExpression")
          THEN <<"(">> \o Chars("base_query") \o <<".">> \o Chars(val.on.left.name)
               \o <<" ", "=", " ">> \o Chars("departments") \o <<".">>
               \o Chars(val.on.right.name) \o <<")">>
          ELSE <<"(">> \o left \o <<" ", "=", " ">> \o right \o <<")">>
  ELSE StripAliasED(DuckVisit(val.on))

\* x.visit(visitor, ""): the dispatch of a node to the visitor method of its
\* class, for the expression and literal classes.
DuckVisit(val) ==
  CASE IsA(val, "IntegerLiteral") -> IntStr(val.val)
    [] IsA(val, "StringLiteral") -> <<"'">> \o Chars(val.val) \o <<"'">>
    [] IsA(val, "BooleanLiteral") -> IF val.val THEN Chars("true") ELSE Chars("false")
    [] IsA(val, "BinaryExpression") ->
         <<"(">> \o DuckVisit(val.left) \o <<" ">> \o DuckOperator(val.operator)
         \o <<" ">> \o DuckVisit(val.right) \o <<")">>
    [] IsA(val, "ColumnReferenceExpression") -> Chars(val.name)
    [] IsA(val, "ColumnAliasExpression") ->
         DuckVisit(val.reference) \o <<" AS ">> \o Chars(val.alias)
    [] IsA(val, "ComputedColumnAliasExpression") ->
         IF val.expression # NoneVal
         THEN DuckVisit(val.expression) \o <<" AS ">> \o Chars(val.alias)
         ELSE <<"NULL">> \o <<" AS ">> \o Chars(val.alias)
    [] IsA(val, "MapReduceExpression") ->
         DuckVisit(val.reduce_expression) \o <<"(">> \o DuckVisit(val.map_expression)
         \o <<")">>
    [] IsA(val, "LambdaExpression") -> DuckVisit(val.expression)
    [] IsA(val, "VariableAliasExpression") -> Chars(val.alias)
    [] IsA(val, "LiteralExpression") -> DuckVisit(val.literal)
    [] IsA(val, "OperandExpression") -> DuckVisit(val.expression)
    [] IsA(val, "FunctionExpression") -> DuckVisitFunction(val)
    [] IsA(val, "IfExpression") ->
         <<"CASE WHEN", " ">> \o DuckVisit(val.test) \o <<" ", "THEN", " ">>
         \o DuckVisit(val.body) \o <<" ", "ELSE", " ">> \o DuckVisit(val.orelse)
         \o <<" ", "END">>
    [] IsA(val, "OrderByExpression") ->
         DuckVisit(val.expression) \o <<" ">>
         \o (IF val.direction = "AscendingOrderType" THEN <<"ASC">> ELSE <<"DESC">>)
    [] IsA(val, "UnaryExpression") ->
         DuckOperator(val.operator) \o <<" ">> \o DuckVisit(val.expression)
    [] IsA(val, "JoinExpression") -> DuckVisitJoinExpression(val)
    [] IsA(val, "GroupByExpression") -> JoinComma(DuckVisitAll(val.selections))

\* Whether visiting the node raises: visit_function_expression raises ValueError
\* for a function whose class name does not end in "Function".
RECURSIVE DuckRaises(_)
RECURSIVE DuckAnyRaises(_)
DuckAnyRaises(xs) == \E k \in 1..Len(xs) : DuckRaises(xs[k])

DuckRaises(val) ==
  CASE IsA(val, "BinaryExpression") -> DuckRaises(val.left) \/ DuckRaises(val.right)
    [] IsA(val, "ColumnAliasExpression") -> DuckRaises(val.reference)
    [] IsA(val, "ComputedColumnAliasExpression") ->
         val.expression # NoneVal /\ DuckRaises(val.expression)
    [] IsA(val, "MapReduceExpression") ->
         DuckRaises(val.map_expression) \/ DuckRaises(val.reduce_expression)
    [] IsA(val, "LambdaExpression") -> DuckRaises(val.expression)
    [] IsA(val, "LiteralExpression") -> FALSE
    [] IsA(val, "OperandExpression") -> DuckRaises(val.expression)
    [] IsA(val, "FunctionExpression") ->
         \/ ~(val.function \in {"CountFunction", "AverageFunction", "SumFunction",
                                "ModuloFunction"} \/ EndsWithFunction(val.function))
         \/ DuckAnyRaises(val.parameters)
    [] IsA(val, "IfExpression") ->
         DuckRaises(val.test) \/ DuckRaises(val.body) \/ DuckRaises(val.orelse)
    [] IsA(val, "OrderByExpression") -> DuckRaises(val.expression)
    [] IsA(val, "UnaryExpression") -> DuckRaises(val.expression)
    [] IsA(val, "JoinExpression") -> DuckRaises(val.on)
    [] IsA(val, "GroupByExpression") -> DuckAnyRaises(val.selections)
    [] OTHER -> FALSE

\* ------------------------------------------------------------------ DuckDB lowering

\* A relation name counted from one instead of from the clause's index.
QueryNameFromOne(i) == Chars("query_") \o IntStr(i + 1)

\* f"query_{i}"
QueryName(i) == Chars("query_") \o IntStr(i)

\* f"{next_cte} AS (SELECT {projection} FROM {current_cte}{suffix})"
CteText(next_cte, projection, current_cte, suffix) ==
  next_cte \o <<" AS ", "(", "SELECT", " ">> \o projection
  \o <<" ", "FROM", " ">> \o current_cte \o suffix \o <<")">>

\* The extend_columns / agg_cols list built from a list of expressions.
RECURSIVE DuckComputedColumns(_)
DuckComputedColumns(exprs) ==
  IF exprs = <<>> THEN <<>>
  ELSE LET expr == exprs[1]
           rest == DuckComputedColumns(Tail(exprs))
       IN IF IsA(expr, "ComputedColumnAliasExpression") /\ expr.expression # NoneVal
          THEN <<StripAliasED(DuckVisit(expr.expression)) \o <<" AS ">>
                 \o Chars(expr.alias)>> \o rest
          ELSE IF IsA(expr, "ComputedColumnAliasExpression")
               THEN <<(<<"NULL", " AS ">> \o Chars(expr.alias))>> \o rest
               ELSE rest

\* [expr.visit(visitor, "").replace(" AS e", "").replace(" AS d", "") for expr in xs]
RECURSIVE DuckVisitAllStripped(_)
DuckVisitAllStripped(xs) ==
  IF xs = <<>> THEN <<>>
  ELSE <<StripAliasED(DuckVisit(xs[1]))>> \o DuckVisitAllStripped(Tail(xs))

\* "INNER JOIN" if isinstance(clause.join_type, InnerJoinType) else "LEFT JOIN"
DuckJoinType(clause) ==
  IF clause.join_type = "InnerJoinType" THEN <<"INNER JOIN">> ELSE <<"LEFT JOIN">>

\* The join_condition of the Join branch.
DuckJoinCondition(clause, current_cte) ==
  LET join_table == Chars(clause.from_clause.table) IN
  IF /\ IsA(clause.on_clause, "JoinExpression")
     /\ IsA(clause.on_clause.on, "BinaryExpression")
     /\ clause.on_clause.on.operator = "EqualsBinaryOperator"
  THEN LET left == clause.on_clause.on.left
           right == clause.on_clause.on.right
           left_col == IF IsA(left, "ColumnReferenceExpression")
                       THEN Chars(left.name) ELSE Chars("unknown")
           right_col == IF IsA(right, "ColumnReferenceExpression")
                        THEN Chars(right.name) ELSE Chars("unknown")
       IN <<"(">> \o current_cte \o <<".">> \o left_col \o <<" ", "=", " ">>
          \o join_table \o <<".">> \o right_col \o <<")">>
  ELSE LET c0 == StripAliasED(DuckVisit(clause.on_clause))
           c1 == Replace(c0, Chars("departmentId"),
                         current_cte \o <<".">> \o Chars("departmentId"))
       IN Replace(c1, Chars("id"), join_table \o <<".">> \o Chars("id"))

\* The relation one clause appends to cte_queries, as a sequence of at most
\* one text: the branches of the loop body of executable_to_string.
DuckClauseCte(clause, next_cte, current_cte) ==
  CASE IsA(clause, "SelectionClause") ->
         <<CteText(next_cte, JoinComma(DuckVisitAllStripped(clause.expressions)),
                   current_cte, <<>>)>>
    [] IsA(clause, "FilterClause") ->
         <<CteText(next_cte, <<"*">>, current_cte,
                   <<" ", "WHERE", " ">> \o StripAliasED(DuckVisit(clause.expression)))>>
    [] IsA(clause, "ExtendClause") ->
         LET extend_columns == DuckComputedColumns(clause.expressions)
         IN IF clause.expressions = <<>> \/ extend_columns = <<>> THEN <<>>
            ELSE <<CteText(next_cte, <<"*", ", ">> \o JoinComma(extend_columns),
                           current_cte, <<>>)>>
    [] IsA(clause, "JoinClause") ->
         <<CteText(next_cte, <<"*">>, current_cte,
                   <<" ">> \o DuckJoinType(clause) \o <<" ">>
                   \o Chars(clause.from_clause.table) \o <<" ", "ON", " ">>
                   \o DuckJoinCondition(clause, current_cte))>>
    [] IsA(clause, "GroupByClause") ->
         IF IsA(clause.expression, "GroupByExpression")
         THEN LET group_cols ==
                    StripAliasED(JoinComma(DuckVisitAll(clause.expression.selections)))
                  agg_cols == DuckComputedColumns(clause.expression.expressions)
                  select_clause == IF agg_cols # <<>>
                                   THEN group_cols \o <<", ">> \o JoinComma(agg_cols)
                                   ELSE group_cols
                  having_clause ==
                    IF clause.expression.having # NoneVal
                    THEN <<" ", "HAVING", " ">>
                         \o StripAliasED(DuckVisit(clause.expression.having))
                    ELSE <<>>
              IN <<CteText(next_cte, select_clause, current_cte,
                           <<" ", "GROUP BY", " ">> \o group_cols \o having_clause)>>
         ELSE <<CteText(next_cte, <<"*">>, current_cte,
                        <<" ", "GROUP BY", " ">>
                        \o StripAliasED(DuckVisit(clause.expression)))>>
    [] IsA(clause, "OrderByClause") ->
         <<CteText(next_cte, <<"*">>, current_cte,
                   <<" ", "ORDER BY", " ">>
                   \o JoinComma(DuckVisitAllStripped(clause.ordering)))>>
    [] IsA(clause, "LimitClause") ->
         <<CteText(next_cte, <<"*">>, current_cte,
                   <<" ", "LIMIT", " ">> \o DuckVisit(clause.value))>>
    [] IsA(clause, "OffsetClause") ->
         <<CteText(next_cte, <<"*">>, current_cte,
                   <<" ", "OFFSET", " ">> \o DuckVisit(clause.value))>>
    [] IsA(clause, "DistinctClause") ->
         IF clause.expressions # <<>>
         THEN <<CteText(next_cte, <<"DISTINCT", " ">>
                        \o JoinComma(DuckVisitAll(clause.expressions)), current_cte, <<>>)>>
         ELSE <<CteText(next_cte, <<"DISTINCT", " ", "*">>, current_cte, <<>>)>>
    [] OTHER -> <<>>

\* A loop body that never reaches `continue`: every clause, the From clause
\* included, falls through to `current_cte = next_cte`.
DuckNeverContinues(clause) == FALSE

\* A loop body whose Extend branch has no `continue`: only the From clause
\* leaves current_cte as it is.
DuckContinuesOnFrom(clause) == IsA(clause, "FromClause")

\* Whether the loop body reaches `continue` for the clause, leaving current_cte
\* as it is.
DuckContinues(clause) ==
  \/ IsA(clause, "FromClause")
  \/ /\ IsA(clause, "ExtendClause")
     /\ (clause.expressions = <<>> \/ DuckComputedColumns(clause.expressions) = <<>>)

\* Whether a visit made by the loop body for the clause raises.
DuckClauseRaises(clause) ==
  CASE IsA(clause, "SelectionClause") -> DuckAnyRaises(clause.expressions)
    [] IsA(clause, "FilterClause") -> DuckRaises(clause.expression)
    [] IsA(clause, "ExtendClause") -> DuckAnyRaises(clause.expressions)
    [] IsA(clause, "JoinClause") ->
         /\ ~(/\ IsA(clause.on_clause, "JoinExpression")
              /\ IsA(clause.on_clause.on, "BinaryExpression")
              /\ clause.on_clause.on.operator = "EqualsBinaryOperator")
         /\ DuckRaises(clause.on_clause)
    [] IsA(clause, "GroupByClause") ->
         \/ DuckRaises(clause.expression)
         \/ /\ IsA(clause.expression, "GroupByExpression")
            /\ \/ DuckAnyRaises(clause.expression.expressions)
               \/ (clause.expression.having # NoneVal
                   /\ DuckRaises(clause.expression.having))
    [] IsA(clause, "OrderByClause") -> DuckAnyRaises(clause.ordering)
    [] IsA(clause, "DistinctClause") -> DuckAnyRaises(clause.expressions)
    [] OTHER -> FALSE

\* next((c for c in clauses if isinstance(c, K)), None): the position of the
\* first clause of the class, 0 for None.
FirstOf(cs, k) ==
  IF \E j \in 1..Len(cs) : IsA(cs[j], k)
  THEN CHOOSE j \in 1..Len(cs) : IsA(cs[j], k) /\ \A m \in 1..(j - 1) : ~IsA(cs[m], k)
  ELSE 0

\* "WITH base_query AS (SELECT * FROM {from_clause.table})"
DuckBaseQuery(from_clause) ==
  <<"WITH", " ">> \o Chars("base_query") \o <<" AS ", "(", "SELECT", " ", "*", " ",
    "FROM", " ">> \o Chars(from_clause.table) \o <<")">>

\* The value returned after the loop.
DuckFinal(cs, ctes, current) ==
  LET from_clause == cs[FirstOf(cs, "FromClause")] IN
  IF Len(ctes) = 1
  THEN IF FirstOf(cs, "SelectionClause") # 0
       THEN <<"SELECT", " ">>
            \o JoinComma(DuckVisitAll(cs[FirstOf(cs, "SelectionClause")].expressions))
            \o <<" ", "FROM", " ">> \o Chars(from_clause.table)
       ELSE <<"SELECT", " ", "*", " ", "FROM", " ">> \o Chars(from_clause.table)
  ELSE JoinComma(ctes) \o <<"\n", "SELECT", " ", "*", " ", "FROM", " ">> \o current

\* ------------------------------------------------------------------ sqlglot trees

\* The sqlglot expression nodes the SQLGlot visitor builds.
GColumn(n) == [node |-> "Column", name |-> n]
GStar == [node |-> "Star"]
GNumber(v) == [node |-> "Number", val |-> v]
GString(v) == [node |-> "String", val |-> v]
GBoolean(v) == [node |-> "Boolean", val |-> v]
GBinary(op, l, r) == [node |-> "Binary", op |-> op, this |-> l, expression |-> r]
GNot(x) == [node |-> "Not", this |-> x]
GIn(x, xs) == [node |-> "In", this |-> x, expressions |-> xs]
GFunc(n, xs) == [node |-> "Func", name |-> n, expressions |-> xs]
GIf(c, t, f) == [node |-> "If", this |-> c, true |-> t, false |-> f]
GOrdered(x, desc) == [node |-> "Ordered", this |-> x, desc |-> desc]
GTable(db, t) == [node |-> "Table", db |-> db, name |-> t]

\* exp.alias_(x, alias): an Alias node has an "alias" argument, which is set in
\* place; any other node is wrapped.
GAlias(x, a) ==
  IF x.node = "Alias" THEN [x EXCEPT !.alias = a]
  ELSE [node |-> "Alias", this |-> x, alias |-> a]

\* exp.select(*expressions): a Select with nothing else set.
GSelect(exprs) ==
  [expressions |-> exprs, from |-> NoneVal, joins |-> <<>>, where |-> NoneVal,
   group |-> <<>>, having |-> NoneVal, order |-> <<>>, limit |-> NoneVal,
   offset |-> NoneVal, distinct |-> FALSE]

\* An identifier as generated with identify=True.
Quoted(n) == <<"\"">> \o Chars(n) \o <<"\"">>

RECURSIVE GSql(_)
RECURSIVE GSqlAll(_)
GSqlAll(xs) == IF xs = <<>> THEN <<>> ELSE <<GSql(xs[1])>> \o GSqlAll(Tail(xs))

\* node.sql(dialect=..., identify=True)
GSql(x) ==
  CASE x.node = "Column" -> Quoted(x.name)
    [] x.node = "Star" -> <<"*">>
    [] x.node = "Number" -> IntStr(x.val)
    [] x.node = "String" -> <<"'">> \o Chars(x.val) \o <<"'">>
    [] x.node = "Boolean" -> IF x.val THEN <<"TRUE">> ELSE <<"FALSE">>
    [] x.node = "Binary" -> GSql(x.this) \o <<" ", x.op, " ">> \o GSql(x.expression)
    [] x.node = "Not" -> <<"NOT", " ">> \o GSql(x.this)
    [] x.node = "In" ->
         GSql(x.this) \o <<" ", "IN", " ", "(">> \o JoinComma(GSqlAll(x.expressions))
         \o <<")">>
    [] x.node = "Func" -> <<x.name, "(">> \o JoinComma(GSqlAll(x.expressions)) \o <<")">>
    [] x.node = "If" ->
         <<"CASE WHEN", " ">> \o GSql(x.this) \o <<" ", "THEN", " ">> \o GSql(x.true)
         \o <<" ", "ELSE", " ">> \o GSql(x.false) \o <<" ", "END">>
    [] x.node = "Ordered" -> GSql(x.this) \o <<" ">> \o (IF x.desc THEN <<"DESC">> ELSE <<"ASC">>)
    [] x.node = "Alias" -> GSql(x.this) \o <<" AS ">> \o Quoted(x.alias)
    [] x.node = "Table" ->
         IF x.db # "" THEN Quoted(x.db) \o <<".">> \o Quoted(x.name) ELSE Quoted(x.name)

\* The joins of a Select.
RECURSIVE GJoinsSql(_)
GJoinsSql(js) ==
  IF js = <<>> THEN <<>>
  ELSE <<" ", js[1].kind, " ", "JOIN", " ">> \o GSql(js[1].table) \o <<" ", "ON", " ">>
       \o GSql(js[1].on) \o GJoinsSql(Tail(js))

\* query.sql(dialect=self.dialect, identify=True) of a Select.
GSelectSql(q) ==
  <<"SELECT">>
  \o (IF q.distinct THEN <<" ", "DISTINCT">> ELSE <<>>)
  \o (IF q.expressions # <<>> THEN <<" ">> \o JoinComma(GSqlAll(q.expressions)) ELSE <<>>)
  \o (IF q.from # NoneVal THEN <<" ", "FROM", " ">> \o GSql(q.from) ELSE <<>>)
  \o GJoinsSql(q.joins)
  \o (IF q.where # NoneVal THEN <<" ", "WHERE", " ">> \o GSql(q.where) ELSE <<>>)
  \o (IF q.group # <<>> THEN <<" ", "GROUP BY", " ">> \o JoinComma(GSqlAll(q.group)) ELSE <<>>)
  \o (IF q.having # NoneVal THEN <<" ", "HAVING", " ">> \o GSql(q.having) ELSE <<>>)
  \o (IF q.order # <<>> THEN <<" ", "ORDER BY", " ">> \o JoinComma(GSqlAll(q.order)) ELSE <<>>)
  \o (IF q.limit # NoneVal THEN <<" ", "LIMIT", " ">> \o GSql(q.limit) ELSE <<>>)
  \o (IF q.offset # NoneVal THEN <<" ", "OFFSET", " ">> \o GSql(q.offset) ELSE <<>>)

\* ------------------------------------------------------------------ SQLGlot visitor

\* SQLGlotExpressionVisitor.visit_*_operator: the same strings as the DuckDB
\* visitor's.
GlotOperator(op) == DuckOperator(op)[1]

\* The visitor's visit_*_function methods; "" where the visitor has none.
GlotFunctionName(cls) ==
  CASE cls = "CountFunction" -> "COUNT"
    [] cls = "AverageFunction" -> "AVG"
    [] cls = "ModuloFunction" -> "MOD"
    [] cls = "ExponentFunction" -> "POW"
    [] OTHER -> ""

RECURSIVE GlotVisit(_)
RECURSIVE GlotRaises(_)

\* The operand of visit_binary_expression: an Operand holding a ColumnAlias
\* is replaced by the alias's reference.
GlotOperand(operand) ==
  IF IsA(operand, "OperandExpression") /\ IsA(operand.expression, "ColumnAliasExpression")
  THEN GlotVisit(operand.expression.reference)
  ELSE GlotVisit(operand)

\* SQLGlotExpressionVisitor.visit_binary_expression
GlotVisitBinary(val) ==
  LET left == GlotOperand(val.left)
      right == GlotOperand(val.right)
      operator == GlotOperator(val.operator)
  IN IF operator \in {"=", "!=", ">", ">=", "<", "<=", "AND", "OR", "+", "-", "*",
                      "/", "IS", "&", "|"}
     THEN GBinary(IF operator = "!=" THEN "<>" ELSE operator, left, right)
     ELSE IF operator = "IN" THEN GIn(left, <<right>>)
     ELSE IF operator = "NOT IN" THEN GNot(GIn(left, <<right>>))
     ELSE IF operator = "IS NOT" THEN GNot(GBinary("IS", left, right))
     ELSE left

\* SQLGlotExpressionVisitor.visit_unary_expression
GlotVisitUnary(val) ==
  LET operand == GlotVisit(val.expression)
      operator == GlotOperator(val.operator)
  IN IF operator = "NOT" THEN GNot(operand) ELSE operand

\* processed_args of visit_function_expression
RECURSIVE GlotFunctionArgs(_, _)
GlotFunctionArgs(function_name, params) ==
  IF params = <<>> THEN <<>>
  ELSE LET param == params[1]
           arg == IF IsA(param, "VariableAliasExpression")
                  THEN IF function_name = "COUNT" THEN GStar ELSE GColumn(param.alias)
                  ELSE IF IsA(param, "ColumnAliasExpression")
                       THEN GlotVisit(param.reference)
                       ELSE GlotVisit(param)
       IN <<arg>> \o GlotFunctionArgs(function_name, Tail(params))

\* SQLGlotExpressionVisitor.visit_function_expression
GlotVisitFunction(val) ==
  LET function_name == GlotFunctionName(val.function)
      args == GlotFunctionArgs(function_name, val.parameters)
  IN IF function_name = "COUNT"
     THEN IF args = <<>> THEN GFunc("COUNT", <<GStar>>) ELSE GFunc("COUNT", <<args[1]>>)
     ELSE IF function_name = "AVG" THEN GFunc("AVG", <<args[1]>>)
     ELSE GFunc(function_name, args)

\* SQLGlotExpressionVisitor.visit_map_reduce_expression
GlotVisitMapReduce(val) ==
  LET reduce == val.reduce_expression
      isFunc == IsA(reduce, "LambdaExpression") /\ IsA(reduce.expression, "FunctionExpression")
  IN IF isFunc /\ reduce.expression.function = "CountFunction"
     THEN GAlias(GFunc("COUNT", <<GStar>>), "count")
     ELSE IF /\ isFunc
             /\ reduce.expression.function = "AverageFunction"
             /\ IsA(val.map_expression, "LambdaExpression")
             /\ IsA(val.map_expression.expression, "ColumnAliasExpression")
          THEN LET column_ref == val.map_expression.expression.reference
                   column_name == IF IsA(column_ref, "ColumnReferenceExpression")
                                  THEN column_ref.name ELSE "column"
               IN GAlias(GFunc("AVG", <<GColumn(column_name)>>), "avg")
          ELSE GlotVisit(reduce)

\* x.visit(visitor, None) for the expression and literal classes.
GlotVisit(val) ==
  CASE IsA(val, "IntegerLiteral") -> GNumber(val.val)
    [] IsA(val, "StringLiteral") -> GString(val.val)
    [] IsA(val, "BooleanLiteral") -> GBoolean(val.val)
    [] IsA(val, "LiteralExpression") -> GlotVisit(val.literal)
    [] IsA(val, "ColumnReferenceExpression") -> GColumn(val.name)
    [] IsA(val, "ColumnAliasExpression") ->
         LET column == GlotVisit(val.reference)
         IN IF column.node = "Column" /\ column.name = val.alias THEN column
            ELSE GAlias(column, val.alias)
    [] IsA(val, "ComputedColumnAliasExpression") ->
         IF val.expression # NoneVal THEN GAlias(GlotVisit(val.expression), val.alias)
         ELSE GColumn(val.alias)
    [] IsA(val, "VariableAliasExpression") -> GColumn(val.alias)
    [] IsA(val, "OperandExpression") -> GlotVisit(val.expression)
    [] IsA(val, "UnaryExpression") -> GlotVisitUnary(val)
    [] IsA(val, "BinaryExpression") -> GlotVisitBinary(val)
    [] IsA(val, "IfExpression") ->
         GIf(GlotVisit(val.test),
             IF IsA(val.body, "ColumnAliasExpression")
             THEN GlotVisit(val.body.reference) ELSE GlotVisit(val.body),
             IF IsA(val.orelse, "ColumnAliasExpression")
             THEN GlotVisit(val.orelse.reference) ELSE GlotVisit(val.orelse))
    [] IsA(val, "FunctionExpression") -> GlotVisitFunction(val)
    [] IsA(val, "MapReduceExpression") -> GlotVisitMapReduce(val)
    [] IsA(val, "LambdaExpression") -> GlotVisit(val.expression)
    [] IsA(val, "JoinExpression") -> GlotVisit(val.on)
    [] IsA(val, "OrderByExpression") ->
         GOrdered(GlotVisit(val.expression), val.direction = "DescendingOrderType")

RECURSIVE GlotVisitAll(_)
GlotVisitAll(xs) ==
  IF xs = <<>> THEN <<>> ELSE <<GlotVisit(xs[1])>> \o GlotVisitAll(Tail(xs))

\* Whether visiting the node raises: a function class the visitor has no
\* visit method for (AttributeError), or args[0] of AVG with no argument
\* (IndexError).
GlotRaises(val) ==
  CASE IsA(val, "LiteralExpression") -> FALSE
    [] IsA(val, "ColumnAliasExpression") -> GlotRaises(val.reference)
    [] IsA(val, "ComputedColumnAliasExpression") ->
         val.expression # NoneVal /\ GlotRaises(val.expression)
    [] IsA(val, "OperandExpression") -> GlotRaises(val.expression)
    [] IsA(val, "UnaryExpression") -> GlotRaises(val.expression)
    [] IsA(val, "BinaryExpression") -> GlotRaises(val.left) \/ GlotRaises(val.right)
    [] IsA(val, "IfExpression") ->
         GlotRaises(val.test) \/ GlotRaises(val.body) \/ GlotRaises(val.orelse)
    [] IsA(val, "FunctionExpression") ->
         \/ GlotFunctionName(val.function) = ""
         \/ (GlotFunctionName(val.function) = "AVG" /\ val.parameters = <<>>)
         \/ \E k \in 1..Len(val.parameters) :
              /\ ~IsA(val.parameters[k], "VariableAliasExpression")
              /\ GlotRaises(val.parameters[k])
    [] IsA(val, "MapReduceExpression") ->
         LET reduce == val.reduce_expression
             isFunc == /\ IsA(reduce, "LambdaExpression")
                       /\ IsA(reduce.expression, "FunctionExpression")
         IN /\ ~(isFunc /\ reduce.expression.function = "CountFunction")
            /\ ~(/\ isFunc
                 /\ reduce.expression.function = "AverageFunction"
                 /\ IsA(val.map_expression, "LambdaExpression")
                 /\ IsA(val.map_expression.expression, "ColumnAliasExpression"))
            /\ GlotRaises(reduce)
    [] IsA(val, "LambdaExpression") -> GlotRaises(val.expression)
    [] IsA(val, "JoinExpression") -> GlotRaises(val.on)
    [] IsA(val, "OrderByExpression") -> GlotRaises(val.expression)
    [] OTHER -> FALSE

GlotAnyRaises(xs) == \E k \in 1..Len(xs) : GlotRaises(xs[k])

\* ------------------------------------------------------------------ SQLGlot lowering

\* parse_one('SELECT "column", "column2", COUNT(*) AS count, AVG("column") AS avg
\*            FROM "test_db"."table" GROUP BY "column", "column2"')
GlotFixedGroupByTree ==
  [GSelect(<<GColumn("column"), GColumn("column2"),
             GAlias(GFunc("COUNT", <<GStar>>), "count"),
             GAlias(GFunc("AVG", <<GColumn("column")>>), "avg")>>)
   EXCEPT !.from = GTable("test_db", "table"),
          !.group = <<GColumn("column"), GColumn("column2")>>]

\* parse_one('SELECT "column2" FROM "test_db"."table" INNER JOIN
\*            "test_db"."table2" ON "column" = "column"')
GlotFixedJoinTree ==
  [GSelect(<<GColumn("column2")>>)
   EXCEPT !.from = GTable("test_db", "table"),
          !.joins = <<[kind |-> "INNER", table |-> GTable("test_db", "table2"),
                       on |-> GBinary("=", GColumn("column"), GColumn("column"))]>>]

\* The string returned when the clauses hold From(test_db, table), a GroupBy
\* and a Selection.
GlotFixedGroupByText ==
  <<"SELECT", " ">> \o Quoted("column") \o <<", ">> \o Quoted("column2") \o <<", ">>
  \o <<"COUNT", "(", "*", ")", " AS ">> \o Chars("count") \o <<", ">>
  \o <<"AVG", "(">> \o Quoted("column") \o <<")", " AS ">> \o Chars("avg")
  \o <<" ", "FROM", " ">> \o Quoted("test_db") \o <<".">> \o Quoted("table")
  \o <<" ", "GROUP BY", " ">> \o Quoted("column") \o <<", ">> \o Quoted("column2")

\* The string returned when the clauses hold From(test_db, table) and a Join
\* of test_db.table2.
GlotFixedJoinText ==
  <<"SELECT", " ">> \o Quoted("column2") \o <<" ", "FROM", " ">> \o Quoted("test_db")
  \o <<".">> \o Quoted("table") \o <<" ", "INNER", " ", "JOIN", " ">> \o Quoted("test_db")
  \o <<".">> \o Quoted("table2") \o <<" ", "ON", " ">> \o Quoted("column")
  \o <<" ", "=", " ">> \o Quoted("column")

\* SQLGlotExpressionVisitor.visit_from_clause
GlotVisitFrom(val) ==
  [GSelect(<<GStar>>) EXCEPT !.from = GTable(val.database, val.table)]

\* SQLGlotExpressionVisitor.visit_join_clause
GlotVisitJoin(val, parameter) ==
  IF /\ val.from_clause.database = "test_db"
     /\ val.from_clause.table = "table2"
     /\ val.join_type = "InnerJoinType"
  THEN GlotFixedJoinTree
  ELSE IF parameter.from # NoneVal
       THEN [GSelect(<<GStar>>)
             EXCEPT !.from = GTable("", "table"),
                    !.joins = <<[kind |-> IF val.join_type = "InnerJoinType"
                                          THEN "INNER" ELSE "LEFT",
                                 table |-> GTable(val.from_clause.database,
                                                  val.from_clause.table),
                                 on |-> GlotVisit(val.on_clause)]>>]
       ELSE [GSelect(parameter.expressions)
             EXCEPT !.from = GTable("", val.from_clause.table)]

\* The projection of the selections of visit_group_by_expression.
RECURSIVE GlotGroupBySelections(_)
GlotGroupBySelections(sels) ==
  IF sels = <<>> THEN <<>>
  ELSE LET selection == sels[1]
           rest == GlotGroupBySelections(Tail(sels))
       IN IF IsA(selection, "MapReduceExpression")
          THEN LET reduce == selection.reduce_expression
                   isFunc == /\ IsA(reduce, "LambdaExpression")
                             /\ IsA(reduce.expression, "FunctionExpression")
               IN IF isFunc /\ reduce.expression.function = "CountFunction"
                  THEN <<GAlias(GFunc("COUNT", <<GStar>>), "count")>> \o rest
                  ELSE IF /\ isFunc
                          /\ reduce.expression.function = "AverageFunction"
                          /\ IsA(selection.map_expression, "LambdaExpression")
                          /\ IsA(selection.map_expression.expression,
                                 "ColumnAliasExpression")
                       THEN LET column_ref == selection.map_expression.expression.reference
                                column_name ==
                                  IF IsA(column_ref, "ColumnReferenceExpression")
                                  THEN column_ref.name ELSE "column"
                            IN <<GAlias(GFunc("AVG", <<GColumn(column_name)>>), "avg")>>
                               \o rest
                       ELSE rest
          ELSE <<GlotVisit(selection)>> \o rest

\* SQLGlotExpressionVisitor.visit_group_by_expression
GlotVisitGroupByExpression(val, parameter) ==
  IF /\ Len(val.expressions) = 2 /\ Len(val.selections) = 2
     /\ IsA(val.expressions[1], "ColumnReferenceExpression")
     /\ IsA(val.expressions[2], "ColumnReferenceExpression")
     /\ val.expressions[1].name = "column"
     /\ val.expressions[2].name = "column2"
  THEN GlotFixedGroupByTree
  ELSE LET group_by_exprs == GlotVisitAll(val.expressions)
       IN [GSelect(group_by_exprs \o GlotGroupBySelections(val.selections))
           EXCEPT !.from = parameter.from,
                  !.group = group_by_exprs,
                  !.having = IF val.having # NoneVal THEN GlotVisit(val.having)
                             ELSE NoneVal]

\* query.where(condition)
GWhere(q, condition) ==
  [q EXCEPT !.where = IF q.where = NoneVal THEN condition
                      ELSE GBinary("AND", q.where, condition)]

\* clause.visit(visitor, query) for the clauses of the second loop.
GlotVisitClause(clause, parameter) ==
  CASE IsA(clause, "SelectionClause") ->
         [GSelect(GlotVisitAll(clause.expressions)) EXCEPT !.from = parameter.from]
    [] IsA(clause, "FilterClause") -> GWhere(parameter, GlotVisit(clause.expression))
    [] IsA(clause, "ExtendClause") ->
         [parameter EXCEPT !.expressions = @ \o GlotVisitAll(clause.expressions)]
    [] IsA(clause, "GroupByClause") ->
         GlotVisitGroupByExpression(
           clause.expression,
           [GSelect(parameter.expressions) EXCEPT !.from = parameter.from])
    [] IsA(clause, "OrderByClause") ->
         [parameter EXCEPT !.order = @ \o GlotVisitAll(clause.ordering)]
    [] IsA(clause, "LimitClause") -> [parameter EXCEPT !.limit = GlotVisit(clause.value)]
    [] IsA(clause, "OffsetClause") -> [parameter EXCEPT !.offset = GlotVisit(clause.value)]
    [] IsA(clause, "RenameClause") ->
         [GSelect(GlotVisitAll(clause.columnAliases)) EXCEPT !.from = parameter.from]
    [] IsA(clause, "DistinctClause") ->
         [GSelect(GlotVisitAll(clause.expressions))
          EXCEPT !.from = parameter.from, !.distinct = TRUE]

\* Whether clause.visit(visitor, query) raises.
GlotClauseRaises(clause) ==
  CASE IsA(clause, "SelectionClause") -> GlotAnyRaises(clause.expressions)
    [] IsA(clause, "FilterClause") -> GlotRaises(clause.expression)
    [] IsA(clause, "ExtendClause") -> GlotAnyRaises(clause.expressions)
    [] IsA(clause, "GroupByClause") ->
         LET val == clause.expression IN
         /\ ~(/\ Len(val.expressions) = 2 /\ Len(val.selections) = 2
              /\ IsA(val.expressions[1], "ColumnReferenceExpression")
              /\ IsA(val.expressions[2], "ColumnReferenceExpression")
              /\ val.expressions[1].name = "column"
              /\ val.expressions[2].name = "column2")
         /\ \/ GlotAnyRaises(val.expressions)
            \/ \E k \in 1..Len(val.selections) :
                 /\ ~IsA(val.selections[k], "MapReduceExpression")
                 /\ GlotRaises(val.selections[k])
            \/ (val.having # NoneVal /\ GlotRaises(val.having))
    [] IsA(clause, "OrderByClause") -> GlotAnyRaises(clause.ordering)
    [] IsA(clause, "RenameClause") -> GlotAnyRaises(clause.columnAliases)
    [] IsA(clause, "DistinctClause") -> GlotAnyRaises(clause.expressions)
    [] IsA(clause, "JoinClause") ->
         /\ ~(/\ clause.from_clause.database = "test_db"
              /\ clause.from_clause.table = "table2"
              /\ clause.join_type = "InnerJoinType")
         /\ GlotRaises(clause.on_clause)
    [] OTHER -> FALSE

\* The two early returns of SQLGlotRuntime.executable_to_string.
GlotHasFrom(cs) ==
  \E j \in 1..Len(cs) :
    IsA(cs[j], "FromClause") /\ cs[j].database = "test_db" /\ cs[j].table = "table"

GlotHasJoin(cs) ==
  \E j \in 1..Len(cs) :
    /\ IsA(cs[j], "JoinClause")
    /\ cs[j].from_clause.database = "test_db"
    /\ cs[j].from_clause.table = "table2"

GlotHas(cs, k) == \E j \in 1..Len(cs) : IsA(cs[j], k)

\* The positions of the clauses of a class, in order.
RECURSIVE PositionsFrom(_, _, _)
PositionsFrom(cs, k, j) ==
  IF j > Len(cs) THEN <<>>
  ELSE (IF IsA(cs[j], k) THEN <<j>> ELSE <<>>) \o PositionsFrom(cs, k, j + 1)

Positions(cs, k) == PositionsFrom(cs, k, 1)

\* ------------------------------------------------------------------ whole lowerings

\* The loop body of DuckDBRuntime.executable_to_string for the clause at
\* Python index idx, on the loop's variables.
DuckStep(clause, idx, st) ==
  IF DuckClauseRaises(clause) THEN [st EXCEPT !.raised = TRUE]
  ELSE [raised |-> FALSE,
        cte_queries |-> st.cte_queries \o DuckClauseCte(clause, QueryName(idx),
                                                        st.current_cte),
        current_cte |-> IF DuckContinues(clause) THEN st.current_cte
                        ELSE QueryName(idx)]

\* The loop's variables after its first k iterations.
RECURSIVE DuckLoopState(_, _)
DuckLoopState(cs, k) ==
  IF k = 0
  THEN [raised |-> FALSE,
        cte_queries |-> <<DuckBaseQuery(cs[FirstOf(cs, "FromClause")])>>,
        current_cte |-> Chars("base_query")]
  ELSE LET st == DuckLoopState(cs, k - 1)
       IN IF st.raised THEN st ELSE DuckStep(cs[k], k - 1, st)

\* DuckDBRuntime.executable_to_string(clauses): what it returns, or that it
\* raises.
DuckLower(cs) ==
  IF cs = <<>> THEN [status |-> "returned", text |-> <<>>]
  ELSE IF FirstOf(cs, "FromClause") = 0 THEN [status |-> "raised", text |-> <<>>]
  ELSE LET st == DuckLoopState(cs, Len(cs))
       IN IF st.raised THEN [status |-> "raised", text |-> <<>>]
          ELSE [status |-> "returned",
                text |-> DuckFinal(cs, st.cte_queries, st.current_cte)]

\* The query after the join loop has visited the first k join clauses;
\* NoneVal once a visit raised.
RECURSIVE GlotAfterJoins(_, _, _)
GlotAfterJoins(cs, joins, k) ==
  IF k = 0
  THEN LET froms == Positions(cs, "FromClause")
       IN GlotVisitFrom(cs[froms[Len(froms)]])
  ELSE LET q == GlotAfterJoins(cs, joins, k - 1)
       IN IF q = NoneVal \/ GlotClauseRaises(cs[joins[k]]) THEN NoneVal
          ELSE GlotVisitJoin(cs[joins[k]], q)

\* The query after the second loop has passed the first k clauses.
RECURSIVE GlotAfterClauses(_, _)
GlotAfterClauses(cs, k) ==
  IF k = 0
  THEN LET joins == Positions(cs, "JoinClause")
       IN GlotAfterJoins(cs, joins, Len(joins))
  ELSE LET q == GlotAfterClauses(cs, k - 1)
           clause == cs[k]
       IN IF \/ IsA(clause, "FromClause") \/ IsA(clause, "JoinClause")
             \/ GlotClauseRaises(clause)
          THEN q
          ELSE GlotVisitClause(clause, q)

\* SQLGlotRuntime.executable_to_string(clauses): what it returns, or that it
\* raises.
GlotLower(cs) ==
  IF GlotHasFrom(cs) /\ GlotHas(cs, "GroupByClause") /\ GlotHas(cs, "SelectionClause")
  THEN [status |-> "returned", text |-> GlotFixedGroupByText]
  ELSE IF GlotHasFrom(cs) /\ GlotHasJoin(cs)
  THEN [status |-> "returned", text |-> GlotFixedJoinText]
  ELSE IF Positions(cs, "FromClause") = <<>>
  THEN [status |-> "returned", text |-> <<>>]
  ELSE LET joins == Positions(cs, "JoinClause")
       IN IF GlotAfterJoins(cs, joins, Len(joins)) = NoneVal
          THEN [status |-> "raised", text |-> <<>>]
          ELSE [status |-> "returned",
                text |-> GSelectSql(GlotAfterClauses(cs, Len(cs)))]

\* ------------------------------------------------------------------ inputs

\* lambda e: e.<name>, as the parsers build it.
Col(alias, name) ==
  OperandExpression(ColumnAliasExpression(alias, ColumnReferenceExpression(name)))

IntOperand(v) == OperandExpression(LiteralExpression(IntegerLiteral(v)))

\* The clauses a caller puts in the sequence handed to a runtime.
FromClauses == {FromClause("test_db", "table"), FromClause("hr", "employees")}

ExtendBonus ==
  ExtendClause(<<ComputedColumnAliasExpression(
                   "bonus", BinaryExpression(Col("e", "salary"), IntOperand(2),
                                             "MultiplyBinaryOperator"))>>)

FilterBonus ==
  FilterClause(BinaryExpression(Col("e", "bonus"), IntOperand(7500),
                                "GreaterThanBinaryOperator"))

ExtendOver ==
  ExtendClause(<<ComputedColumnAliasExpression(
                   "rn", FunctionExpression("OverFunction",
                                            <<ColumnReferenceExpression("salary")>>))>>)

GroupByDept ==
  GroupByClause(GroupByExpression(
    <<ColumnReferenceExpression("departmentId")>>,
    <<ComputedColumnAliasExpression(
        "total", FunctionExpression("SumFunction",
                                    <<ColumnReferenceExpression("salary")>>))>>,
    NoneVal))

GroupByHaving ==
  GroupByClause(GroupByExpression(
    <<ColumnReferenceExpression("name")>>,
    <<ComputedColumnAliasExpression(
        "cnt", FunctionExpression("CountFunction",
                                  <<ColumnReferenceExpression("id")>>))>>,
    BinaryExpression(OperandExpression(ColumnReferenceExpression("cnt")), IntOperand(1),
                     "GreaterThanBinaryOperator")))

JoinTable2 ==
  JoinClause(FromClause("test_db", "table2"), "InnerJoinType",
             JoinExpression(LambdaExpression(
               <<"a", "b">>,
               BinaryExpression(Col("a", "column"), Col("b", "column"),
                                "EqualsBinaryOperator"))))

JoinDepartments ==
  JoinClause(FromClause("hr", "departments"), "LeftJoinType",
             JoinExpression(BinaryExpression(
               ColumnReferenceExpression("departmentId"),
               ColumnReferenceExpression("id"), "EqualsBinaryOperator")))

JoinOperands ==
  JoinClause(FromClause("hr", "dept"), "InnerJoinType",
             JoinExpression(BinaryExpression(
               OperandExpression(ColumnReferenceExpression("departmentId")),
               OperandExpression(ColumnReferenceExpression("id")),
               "EqualsBinaryOperator")))

JoinLambda ==
  JoinClause(FromClause("hr", "departments"), "InnerJoinType",
             JoinExpression(LambdaExpression(
               <<"e", "d">>,
               BinaryExpression(Col("e", "departmentId"), Col("d", "id"),
                                "EqualsBinaryOperator"))))

\* extend([modulo = MOD(a.column, 2), exponent = POW(a.column, 2)])
ExtendModuloExponent ==
  ExtendClause(<<
    ComputedColumnAliasExpression(
      "modulo",
      LambdaExpression(<<"a">>, FunctionExpression(
        "ModuloFunction",
        <<ColumnAliasExpression("a", ColumnReferenceExpression("column")),
          LiteralExpression(IntegerLiteral(2))>>))),
    ComputedColumnAliasExpression(
      "exponent",
      LambdaExpression(<<"a">>, FunctionExpression(
        "ExponentFunction",
        <<ColumnAliasExpression("a", ColumnReferenceExpression("column")),
          LiteralExpression(IntegerLiteral(2))>>)))>>)

\* group_by([column, column2], [count = a.column + a.column2 reduced by
\* count(), avg = a.column reduced by avg()])
GroupByMapReduce ==
  GroupByClause(GroupByExpression(
    <<ColumnReferenceExpression("column"), ColumnReferenceExpression("column2")>>,
    <<ComputedColumnAliasExpression(
        "count",
        MapReduceExpression(
          LambdaExpression(<<"a">>, BinaryExpression(Col("a", "column"),
                                                     Col("a", "column2"),
                                                     "AddBinaryOperator")),
          LambdaExpression(<<"a">>, FunctionExpression(
            "CountFunction", <<VariableAliasExpression("a")>>)))),
      ComputedColumnAliasExpression(
        "avg",
        MapReduceExpression(
          LambdaExpression(<<"a">>, ColumnAliasExpression(
            "a", ColumnReferenceExpression("column"))),
          LambdaExpression(<<"a">>, FunctionExpression(
            "AverageFunction", <<VariableAliasExpression("a")>>))))>>,
    NoneVal))

OtherClauses ==
  { SelectionClause(<<ColumnReferenceExpression("column")>>),
    SelectionClause(<<ColumnReferenceExpression("name"),
                      ColumnReferenceExpression("salary")>>),
    FilterBonus, ExtendBonus, ExtendClause(<<>>), ExtendOver,
    RenameClause(<<ColumnAliasExpression("paid", ColumnReferenceExpression("salary"))>>),
    GroupByDept, GroupByHaving, JoinTable2, JoinDepartments, JoinOperands,
    JoinLambda,
    OrderByClause(<<OrderByExpression("DescendingOrderType",
                                      ColumnReferenceExpression("salary"))>>),
    LimitClause(IntegerLiteral(10)), OffsetClause(IntegerLiteral(5)),
    DistinctClause(<<>>), DistinctClause(<<ColumnReferenceExpression("name")>>) }

ClauseUniverse == FromClauses \cup OtherClauses

\* ------------------------------------------------------------------ state

VARIABLES
  clauses,      \* the clause sequence handed to executable_to_string
  runtime,      \* "none", "duckdb" (DuckDBRuntime) or "sqlglot" (SQLGlotRuntime)
  pc,           \* where executable_to_string is
  i,            \* the loop index of the clause loop (Python's, from 0)
  current_cte,  \* DuckDB: current_cte
  cte_queries,  \* DuckDB: cte_queries
  query,        \* SQLGlot: query
  join_todo,    \* SQLGlot: the positions of join_clauses not yet visited
  applied,      \* SQLGlot: the positions of the clauses visited so far, in order
  skipped,      \* SQLGlot: the positions of the clauses whose visit raised
  result,       \* the returned string ("raised": <<>>)
  first,        \* caller: the outcome of an earlier call it kept, or NoneVal
  between,      \* caller: a different lowering has completed since `first`
  calls,        \* caller: the number of further calls it has made
  columns,      \* builder: Query._table.columns, an ordered dict name -> type
  before,       \* builder: the clause list and the columns before the last
                \*          builder operation
  op,           \* builder: the last builder operation and its arguments
  passed_table, \* builder: the columns of the Table (dsl: of the dict) the
                \*          query was made from, as its caller sees them
  sibling,      \* builder: the schema columns of another query made from it
  made_by,      \* builder: "Query" (Query.from_table) or "LegendQL"
                \*          (dsl LegendQL.from_)
  adapter,      \* eval: the class of the runtime whose eval is running
  epc,          \* eval: where eval is
  sql_query,    \* eval: the text executable_to_string returned
  con,          \* eval: the connection this call opened: "none", "open", "closed"
  sent,         \* eval: the queries this call has sent to the engine
  raised_by,    \* eval: what made eval raise: "lowering", "connect", "engine"
  attrs,        \* pandas: the value of each attribute apply_patches replaces
  originals,    \* pandas: the module's _original_* globals
  attrs_before, \* pandas: attrs as the last apply_patches found them
  patch_op,     \* pandas: the last of apply_patches / remove_patches to run
  cycles,       \* pandas: the number of apply_patches calls so far
  frames,       \* pandas: the live DataFrames, by id, with where they came from
  contexts,     \* pandas: _dataframe_contexts: per frame id the index of the
                \*         context's Query in queries, 0 for no entry
  queries       \* pandas: the clause list of each Query object

callVars == <<first, between, calls>>

buildVars == <<columns, before, op, passed_table, sibling, made_by>>

evalVars == <<adapter, epc, sql_query, con, sent, raised_by>>

\* The state around the query and its lowering.
pandasVars == <<attrs, originals, attrs_before, patch_op, cycles, frames, contexts,
                queries>>

hostVars == <<evalVars, pandasVars>>

lowerVars == <<runtime, i, current_cte, cte_queries, query, join_todo, applied,
               skipped, result>>

vars == <<clauses, runtime, pc, i, current_cte, cte_queries, query, join_todo,
          applied, skipped, result, callVars, buildVars, hostVars>>

\* The attributes apply_patches replaces, by class.
Attr(cls, name) == [cls |-> cls, name |-> name]

DataFrameMethods ==
  {"filter", "rename", "assign", "sort_values", "head", "merge", "groupby"}

GroupByMethods == {"agg", "sum", "mean", "count", "min", "max"}

SeriesGroupByMethods == {"sum", "mean", "count", "min", "max"}

PatchedAttrs ==
  {Attr("DataFrame", m) : m \in DataFrameMethods \cup {"loc"}}
  \cup {Attr("DataFrameGroupBy", m) : m \in GroupByMethods \cup {"__getitem__"}}
  \cup {Attr("SeriesGroupBy", m) : m \in SeriesGroupByMethods}

\* The attributes a module global _original_* is kept for.
SavedAttrs ==
  {Attr("DataFrame", m) : m \in DataFrameMethods \cup {"loc"}}
  \cup {Attr("DataFrameGroupBy", m) : m \in GroupByMethods \cup {"__getitem__"}}

\* An attribute value: Pandas' own function or LegendQL's patch, as the
\* plain function or as a method bound to one object, and for
\* DataFrame.loc the number of patched_loc properties wrapped around
\* Pandas' property.
Value(fn, bound, wraps) == [fn |-> fn, bound |-> bound, wraps |-> wraps]

PandasOwn == Value("pandas", FALSE, 0)

LegendPatch == Value("patch", FALSE, 0)

\* instance.attr for a function or a bound method held by the class: a
\* function is bound to the instance, a bound method stays as it is.
BoundTo(v) == [v EXCEPT !.bound = TRUE]

\* Pandas as imported: every attribute is Pandas' own.
ImportedAttrs == [a \in PatchedAttrs |-> PandasOwn]

\* The _original_* globals once pandas_integration is imported: the
\* DataFrame methods are captured, _original_loc_getitem and the GroupBy
\* ones are None, and _original_groupby_getitem is not defined.
Undefined == [kind |-> "undefined"]

ImportedOriginals ==
  [a \in SavedAttrs |->
     IF a.cls = "DataFrame" /\ a.name # "loc" THEN PandasOwn
     ELSE IF a.name = "__getitem__" THEN Undefined
     ELSE NoneVal]

\* No eval is running.
InitIdle ==
  /\ adapter = "none"
  /\ epc = "idle"
  /\ sql_query = <<>>
  /\ con = "none"
  /\ sent = <<>>
  /\ raised_by = "none"

\* No eval is running and legendql.pandas_integration is not imported:
\* there are no _original_* globals and no Pandas attribute is followed.
InitHost ==
  /\ InitIdle
  /\ attrs = <<>>
  /\ originals = <<>>
  /\ attrs_before = <<>>
  /\ patch_op = "none"
  /\ cycles = 0
  /\ frames = <<>>
  /\ contexts = <<>>
  /\ queries = <<>>

Init ==
  /\ InitHost
  /\ clauses = <<>>
  /\ runtime = "none"
  /\ pc = "input"
  /\ i = 0
  /\ current_cte = <<>>
  /\ cte_queries = <<>>
  /\ query = NoneVal
  /\ join_todo = <<>>
  /\ applied = <<>>
  /\ skipped = <<>>
  /\ result = <<>>
  /\ first = NoneVal
  /\ between = FALSE
  /\ calls = 0
  /\ columns = <<>>
  /\ before = NoneVal
  /\ op = NoneVal
  /\ passed_table = <<>>
  /\ sibling = <<>>
  /\ made_by = "none"

\* The caller appends a clause to the list it will hand over.
AddClause(c) ==
  /\ UNCHANGED <<callVars, buildVars, hostVars>>
  /\ pc = "input"
  /\ Len(clauses) < MaxClauses
  /\ clauses' = Append(clauses, c)
  /\ UNCHANGED <<runtime, pc, i, current_cte, cte_queries, query, join_todo,
                 applied, skipped, result>>

\* A variant of DuckStart whose loop index outlives the call.
DuckStartKeepsIndex ==
  /\ UNCHANGED <<callVars, buildVars, hostVars>>
  /\ pc = "input"
  /\ runtime' = "duckdb"
  /\ IF clauses = <<>>
     THEN /\ pc' = "returned"
          /\ result' = <<>>
          /\ UNCHANGED <<current_cte, cte_queries>>
     ELSE IF FirstOf(clauses, "FromClause") = 0
          THEN /\ pc' = "raised"
               /\ UNCHANGED <<result, current_cte, cte_queries>>
          ELSE /\ pc' = "loop"
               /\ current_cte' = Chars("base_query")
               /\ cte_queries' =
                    <<DuckBaseQuery(clauses[FirstOf(clauses, "FromClause")])>>
               /\ UNCHANGED result
  /\ UNCHANGED <<clauses, i, query, join_todo, applied, skipped>>

\* DuckDBRuntime.executable_to_string, up to the loop.
DuckStart ==
  /\ UNCHANGED <<callVars, buildVars, hostVars>>
  /\ pc = "input"
  /\ runtime' = "duckdb"
  /\ IF clauses = <<>>
     THEN /\ pc' = "returned"
          /\ result' = <<>>
          /\ UNCHANGED <<current_cte, cte_queries>>
     ELSE IF FirstOf(clauses, "FromClause") = 0
          THEN /\ pc' = "raised"
               /\ UNCHANGED <<result, current_cte, cte_queries>>
          ELSE /\ pc' = "loop"
               /\ current_cte' = Chars("base_query")
               /\ cte_queries' =
                    <<DuckBaseQuery(clauses[FirstOf(clauses, "FromClause")])>>
               /\ UNCHANGED result
  /\ i' = 0
  /\ UNCHANGED <<clauses, query, join_todo, applied, skipped>>

\* One iteration of `for i, clause in enumerate(clauses)`.
DuckLoop ==
  /\ UNCHANGED <<callVars, buildVars, hostVars>>
  /\ runtime = "duckdb" /\ pc = "loop"
  /\ i < Len(clauses)
  /\ LET st == DuckStep(clauses[i + 1], i,
                        [raised |-> FALSE, cte_queries |-> cte_queries,
                         current_cte |-> current_cte])
     IN IF st.raised
        THEN /\ pc' = "raised"
             /\ UNCHANGED <<i, current_cte, cte_queries>>
        ELSE /\ pc' = pc
             /\ i' = i + 1
             /\ cte_queries' = st.cte_queries
             /\ current_cte' = st.current_cte
  /\ UNCHANGED <<clauses, runtime, query, join_todo, applied, skipped, result>>

\* The code after the loop.
DuckReturn ==
  /\ UNCHANGED <<callVars, buildVars, hostVars>>
  /\ runtime = "duckdb" /\ pc = "loop"
  /\ i = Len(clauses)
  /\ pc' = "returned"
  /\ result' = DuckFinal(clauses, cte_queries, current_cte)
  /\ UNCHANGED <<clauses, runtime, i, current_cte, cte_queries, query, join_todo,
                 applied, skipped>>

\* SQLGlotRuntime.executable_to_string, up to the visit of the From clause.
GlotStart ==
  /\ UNCHANGED <<callVars, buildVars, hostVars>>
  /\ pc = "input"
  /\ runtime' = "sqlglot"
  /\ IF GlotHasFrom(clauses) /\ GlotHas(clauses, "GroupByClause")
        /\ GlotHas(clauses, "SelectionClause")
     THEN /\ pc' = "returned"
          /\ result' = GlotFixedGroupByText
          /\ UNCHANGED <<i, query, join_todo>>
     ELSE IF GlotHasFrom(clauses) /\ GlotHasJoin(clauses)
          THEN /\ pc' = "returned"
               /\ result' = GlotFixedJoinText
               /\ UNCHANGED <<i, query, join_todo>>
          ELSE LET froms == Positions(clauses, "FromClause") IN
               /\ pc' = "visit"
               /\ UNCHANGED result
               /\ IF froms # <<>>
                  THEN /\ query' = GlotVisitFrom(clauses[froms[Len(froms)]])
                       /\ join_todo' = Positions(clauses, "JoinClause")
                       /\ i' = 0
                  ELSE /\ query' = NoneVal
                       /\ join_todo' = <<>>
                       /\ i' = Len(clauses)
  /\ applied' = <<>>
  /\ skipped' = <<>>
  /\ UNCHANGED <<clauses, current_cte, cte_queries>>

\* One iteration of `for join_clause in join_clauses`.
GlotJoin ==
  /\ UNCHANGED <<callVars, buildVars, hostVars>>
  /\ runtime = "sqlglot" /\ pc = "visit"
  /\ join_todo # <<>>
  /\ LET clause == clauses[Head(join_todo)]
     IN IF GlotClauseRaises(clause)
        THEN /\ pc' = "raised"
             /\ UNCHANGED <<query, join_todo, applied>>
        ELSE /\ pc' = pc
             /\ query' = GlotVisitJoin(clause, query)
             /\ join_todo' = Tail(join_todo)
             /\ applied' = Append(applied, Head(join_todo))
  /\ UNCHANGED <<clauses, runtime, i, current_cte, cte_queries, skipped, result>>

\* One iteration of the second `for clause in clauses`, with its try/except.
GlotClause ==
  /\ UNCHANGED <<callVars, buildVars, hostVars>>
  /\ runtime = "sqlglot" /\ pc = "visit"
  /\ join_todo = <<>>
  /\ i < Len(clauses)
  /\ LET clause == clauses[i + 1]
     IN IF IsA(clause, "FromClause") \/ IsA(clause, "JoinClause")
        THEN UNCHANGED <<query, applied, skipped>>
        ELSE IF GlotClauseRaises(clause)
             THEN /\ skipped' = Append(skipped, i + 1)
                  /\ UNCHANGED <<query, applied>>
             ELSE /\ query' = GlotVisitClause(clause, query)
                  /\ applied' = Append(applied, i + 1)
                  /\ UNCHANGED skipped
  /\ i' = i + 1
  /\ UNCHANGED <<clauses, runtime, pc, current_cte, cte_queries, join_todo, result>>

\* `if query: return query.sql(dialect=self.dialect, identify=True)`, else "".
GlotReturn ==
  /\ UNCHANGED <<callVars, buildVars, hostVars>>
  /\ runtime = "sqlglot" /\ pc = "visit"
  /\ join_todo = <<>>
  /\ i = Len(clauses)
  /\ pc' = "returned"
  /\ result' = IF query # NoneVal THEN GSelectSql(query) ELSE <<>>
  /\ UNCHANGED <<clauses, runtime, i, current_cte, cte_queries, query, join_todo,
                 applied, skipped>>

Next ==
  \/ \E c \in ClauseUniverse : AddClause(c)
  \/ DuckStart
  \/ DuckLoop
  \/ DuckReturn
  \/ GlotStart
  \/ GlotJoin
  \/ GlotClause
  \/ GlotReturn

Spec == Init /\ [][Next]_vars

\* ------------------------------------------------------------------ reading the emitted text

\* The position of the first occurrence of pat in text, 0 when there is none.
IndexOf(text, pat) ==
  IF Contains(text, pat)
  THEN CHOOSE j \in 1..Len(text) :
         MatchAt(text, pat, j) /\ \A m \in 1..(j - 1) : ~MatchAt(text, pat, m)
  ELSE 0

\* The characters of text from position j up to the next blank or closing
\* parenthesis.
RECURSIVE WordAt(_, _)
WordAt(text, j) ==
  IF j > Len(text) \/ text[j] \in {" ", ")", ", ", "\n"} THEN <<>>
  ELSE <<text[j]>> \o WordAt(text, j + 1)

\* An element of cte_queries without the WITH keyword of the first one.
CteBody(t) == IF MatchAt(t, <<"WITH", " ">>, 1) THEN SubSeq(t, 3, Len(t)) ELSE t

\* The relation name an element of cte_queries defines: `<name> AS (...`.
CteName(t) == SubSeq(CteBody(t), 1, IndexOf(CteBody(t), <<" AS ", "(">>) - 1)

\* The relation an element of cte_queries reads: the word after its FROM.
CteSource(t) == WordAt(t, IndexOf(t, <<" ", "FROM", " ">>) + 3)

\* The relation names defined by the first k elements of ctes.
DefinedNames(ctes, k) == {CteName(ctes[j]) : j \in 1..k}

\* The relation the final SELECT of a returned CTE chain reads.
FinalSource(text) == WordAt(text, IndexOf(text, <<"\n", "SELECT">>) + 7)

\* The positions among the first n clauses of cs that are not From clauses.
NonFrom(cs, n) == {p \in 1..n : ~IsA(cs[p], "FromClause")}

\* The DuckDB loop is running or has returned a CTE chain.
DuckLowering ==
  /\ runtime = "duckdb"
  /\ pc \in {"loop", "returned"}
  /\ clauses # <<>>

\* ------------------------------------------------------------------ C1

\* One From clause, at the head of the sequence.
OneFromFirst(cs) ==
  /\ cs # <<>>
  /\ IsA(cs[1], "FromClause")
  /\ \A p \in 2..Len(cs) : ~IsA(cs[p], "FromClause")

\* C1: in the DuckDB lowering of a sequence with one From clause followed by
\* any other clauses, after each clause the current relation name is one
\* that cte_queries defines, every emitted relation reads from a relation
\* defined before it, and the final SELECT reads from a defined relation.
C1_CurrentRelationDefined ==
  (DuckLowering /\ OneFromFirst(clauses)) =>
    /\ current_cte \in DefinedNames(cte_queries, Len(cte_queries))
    /\ \A k \in 2..Len(cte_queries) :
         CteSource(cte_queries[k]) \in DefinedNames(cte_queries, k - 1)
    /\ (pc = "returned" /\ Len(cte_queries) > 1) =>
         FinalSource(result) \in DefinedNames(cte_queries, Len(cte_queries))

\* ------------------------------------------------------------------ C2

\* Sequences made only of From, Selection, Filter, non-empty Extend, GroupBy,
\* OrderBy, Limit, Offset, Distinct and Join clauses.
ChainedKinds(cs) ==
  \A p \in 1..Len(cs) :
    /\ cs[p].kind \in {"FromClause", "SelectionClause", "FilterClause",
                       "ExtendClause", "GroupByClause", "OrderByClause",
                       "LimitClause", "OffsetClause", "DistinctClause",
                       "JoinClause"}
    /\ IsA(cs[p], "ExtendClause") => cs[p].expressions # <<>>

\* The index in cte_queries of the relation emitted for the clause at p.
RelationOf(cs, p) == 1 + Cardinality(NonFrom(cs, p))

\* C2: for a sequence of chained kinds the DuckDB loop emits one relation per
\* non-From clause, in clause order, named after the clause's index and
\* reading FROM the relation emitted just before it (base_query for the
\* first); a Filter on bonus after the Extend defining bonus puts its WHERE
\* in its own later relation and the Extend's relation has no WHERE; the
\* returned text is the chain followed by a SELECT from the last relation.
C2_RelationsChainInClauseOrder ==
  (DuckLowering /\ ChainedKinds(clauses)) =>
    /\ Len(cte_queries) = 1 + Cardinality(NonFrom(clauses, i))
    /\ CteName(cte_queries[1]) = Chars("base_query")
    /\ \A p \in NonFrom(clauses, i) :
         LET k == RelationOf(clauses, p) IN
         /\ CteName(cte_queries[k]) = QueryName(p - 1)
         /\ CteSource(cte_queries[k]) = CteName(cte_queries[k - 1])
         /\ IsA(clauses[p], "FilterClause") =>
              Contains(cte_queries[k],
                       <<" ", "WHERE", " ">>
                       \o StripAliasED(DuckVisit(clauses[p].expression)))
         /\ ~IsA(clauses[p], "FilterClause") =>
              ~Contains(cte_queries[k], <<"WHERE">>)
    /\ current_cte = CteName(cte_queries[Len(cte_queries)])
    /\ (pc = "returned" /\ Len(cte_queries) > 1) =>
         result = JoinComma(cte_queries)
                  \o <<"\n", "SELECT", " ", "*", " ", "FROM", " ">>
                  \o CteName(cte_queries[Len(cte_queries)])

\* C2 witness: [From, Extend(bonus = salary * 2), Filter(bonus > 7500)] has
\* been lowered to a chain of three relations.
C2_Witness ==
  /\ runtime = "duckdb" /\ pc = "returned"
  /\ clauses = <<FromClause("hr", "employees"), ExtendBonus, FilterBonus>>
  /\ Len(cte_queries) = 3
  /\ Contains(cte_queries[3], QueryName(1) \o <<" ", "WHERE", " ">>)

\* ------------------------------------------------------------------ C3

\* The clause is a Selection of one bare column.
SelectsOneColumn(clause) ==
  /\ IsA(clause, "SelectionClause")
  /\ Len(clause.expressions) = 1
  /\ IsA(clause.expressions[1], "ColumnReferenceExpression")

\* C3: the DuckDB lowering of exactly [From(table), Selection([col])] returns
\* the flat text `SELECT col FROM table`, with no WITH and no CTE.
C3_FlatSelect ==
  ( /\ runtime = "duckdb" /\ pc = "returned"
    /\ Len(clauses) = 2
    /\ IsA(clauses[1], "FromClause")
    /\ SelectsOneColumn(clauses[2]) ) =>
      /\ result = <<"SELECT", " ">> \o Chars(clauses[2].expressions[1].name)
                  \o <<" ", "FROM", " ">> \o Chars(clauses[1].table)
      /\ ~Contains(result, <<"WITH">>)

\* ------------------------------------------------------------------ C4

\* The number of From clauses of a sequence.
FromCount(cs) == Cardinality({p \in 1..Len(cs) : IsA(cs[p], "FromClause")})

\* C4: executable_to_string of either dialect returns a query string only for
\* a sequence with exactly one From clause; with none (the empty sequence
\* included) or several it raises.
C4_ExactlyOneFrom ==
  (runtime \in {"duckdb", "sqlglot"} /\ pc = "returned") => FromCount(clauses) = 1

\* ------------------------------------------------------------------ C5

\* The relation the GroupBy shape asks of the DuckDB loop: the columns of S,
\* then each aggregation as `<aggregate> AS <alias>`, grouped by S, with
\* HAVING only when H is present.
GroupByShapeDuck(g, next_cte, current) ==
  LET group_cols == StripAliasED(JoinComma(DuckVisitAll(g.selections)))
      projection == IF g.expressions = <<>> THEN group_cols
                    ELSE group_cols \o <<", ">>
                         \o JoinComma(DuckComputedColumns(g.expressions))
      having == IF g.having = NoneVal THEN <<>>
                ELSE <<" ", "HAVING", " ">> \o StripAliasED(DuckVisit(g.having))
  IN CteText(next_cte, projection, current,
             <<" ", "GROUP BY", " ">> \o group_cols \o having)

\* The same shape as a sqlglot query over the table of the From clause.
GroupByShapeGlot(from_clause, g) ==
  [GSelect(GlotVisitAll(g.selections) \o GlotVisitAll(g.expressions))
   EXCEPT !.from = GTable(from_clause.database, from_clause.table),
          !.group = GlotVisitAll(g.selections),
          !.having = IF g.having = NoneVal THEN NoneVal ELSE GlotVisit(g.having)]

\* C5: lowering [From, GroupBy(S, A, H)] emits one relation that projects the
\* columns of S followed by the aggregations of A under their aliases,
\* groups by exactly the columns of S, and has a HAVING only when H is
\* present, in the DuckDB dialect and in the SQLGlot dialect.
C5_GroupByShape ==
  ( /\ pc = "returned"
    /\ Len(clauses) = 2
    /\ IsA(clauses[1], "FromClause")
    /\ IsA(clauses[2], "GroupByClause")
    /\ IsA(clauses[2].expression, "GroupByExpression") ) =>
      /\ runtime = "duckdb" =>
           /\ Len(cte_queries) = 2
           /\ cte_queries[2] = GroupByShapeDuck(clauses[2].expression, QueryName(1),
                                                Chars("base_query"))
      /\ (runtime = "sqlglot" /\ ~GlotClauseRaises(clauses[2])) =>
           result = GSelectSql(GroupByShapeGlot(clauses[1], clauses[2].expression))

\* ------------------------------------------------------------------ C6

\* The clause is a Filter whose predicate both visitors lower.
LowerableFilter(clause) ==
  /\ IsA(clause, "FilterClause")
  /\ ~DuckClauseRaises(clause)
  /\ ~GlotClauseRaises(clause)

\* C6: whatever clauses follow a Filter in a sequence that has a From
\* clause, the text either dialect returns contains a WHERE with that
\* filter's predicate.
C6_FilterKeepsWhere ==
  (pc = "returned" /\ FromCount(clauses) >= 1) =>
    \A p \in 1..Len(clauses) :
      LowerableFilter(clauses[p]) =>
        /\ runtime = "duckdb" =>
             Contains(result, <<" ", "WHERE", " ">>
                              \o StripAliasED(DuckVisit(clauses[p].expression)))
        /\ runtime = "sqlglot" =>
             Contains(result, <<" ", "WHERE", " ">>
                              \o GSql(GlotVisit(clauses[p].expression)))

\* ------------------------------------------------------------------ C7

\* Whether a sequence of positions is strictly increasing.
Increasing(ps) == \A a, b \in 1..Len(ps) : a < b => ps[a] < ps[b]

\* C7: the SQLGlot lowering visits the non-From clauses in their original
\* order, a Join clause at its own position: the positions of the clauses
\* visited so far are increasing.
C7_JoinAtItsPosition ==
  (runtime = "sqlglot" /\ pc \in {"visit", "returned"}) => Increasing(applied)

\* ------------------------------------------------------------------ C8

\* A one-to-one renaming of database, table and column names: it exchanges
\* the names of each pair and leaves every other name as it is.
Sigma(n) ==
  CASE n = "test_db" -> "hr"
    [] n = "hr" -> "test_db"
    [] n = "table" -> "employees"
    [] n = "employees" -> "table"
    [] n = "table2" -> "dept"
    [] n = "dept" -> "table2"
    [] n = "departmentId" -> "name"
    [] n = "name" -> "departmentId"
    [] n = "column" -> "bonus"
    [] n = "bonus" -> "column"
    [] OTHER -> n

\* The names Sigma moves.
SigmaNames ==
  {"test_db", "hr", "table", "employees", "table2", "dept", "departmentId",
   "name", "column", "bonus"}

RECURSIVE RenameNode(_)
RECURSIVE RenameNodes(_)
RenameNodes(xs) ==
  IF xs = <<>> THEN <<>> ELSE <<RenameNode(xs[1])>> \o RenameNodes(Tail(xs))

\* A clause or expression with Sigma applied to every database, table and
\* column name in it.
RenameNode(x) ==
  CASE IsA(x, "ColumnReferenceExpression") -> [x EXCEPT !.name = Sigma(@)]
    [] IsA(x, "ColumnAliasExpression") ->
         [x EXCEPT !.alias = Sigma(@), !.reference = RenameNode(@)]
    [] IsA(x, "ComputedColumnAliasExpression") ->
         [x EXCEPT !.alias = Sigma(@), !.expression = RenameNode(@)]
    [] x.kind \in {"OperandExpression", "UnaryExpression", "LambdaExpression",
                   "OrderByExpression", "FilterClause", "GroupByClause"} ->
         [x EXCEPT !.expression = RenameNode(@)]
    [] IsA(x, "BinaryExpression") ->
         [x EXCEPT !.left = RenameNode(@), !.right = RenameNode(@)]
    [] IsA(x, "FunctionExpression") -> [x EXCEPT !.parameters = RenameNodes(@)]
    [] IsA(x, "MapReduceExpression") ->
         [x EXCEPT !.map_expression = RenameNode(@),
                   !.reduce_expression = RenameNode(@)]
    [] IsA(x, "IfExpression") ->
         [x EXCEPT !.test = RenameNode(@), !.body = RenameNode(@),
                   !.orelse = RenameNode(@)]
    [] IsA(x, "JoinExpression") -> [x EXCEPT !.on = RenameNode(@)]
    [] IsA(x, "GroupByExpression") ->
         [x EXCEPT !.selections = RenameNodes(@), !.expressions = RenameNodes(@),
                   !.having = RenameNode(@)]
    [] IsA(x, "FromClause") ->
         [x EXCEPT !.database = Sigma(@), !.table = Sigma(@)]
    [] x.kind \in {"SelectionClause", "ExtendClause", "DistinctClause"} ->
         [x EXCEPT !.expressions = RenameNodes(@)]
    [] IsA(x, "RenameClause") -> [x EXCEPT !.columnAliases = RenameNodes(@)]
    [] IsA(x, "JoinClause") ->
         [x EXCEPT !.from_clause = RenameNode(@), !.on_clause = RenameNode(@)]
    [] IsA(x, "OrderByClause") -> [x EXCEPT !.ordering = RenameNodes(@)]
    [] OTHER -> x

\* The characters an identifier is spelled with.
IdChars ==
  {"a", "b", "c", "d", "e", "f", "g", "h", "i", "j", "k", "l", "m", "n", "o",
   "p", "q", "r", "s", "t", "u", "v", "w", "x", "y", "z", "A", "B", "C", "D",
   "E", "F", "G", "H", "I", "J", "K", "L", "M", "N", "O", "P", "Q", "R", "S",
   "T", "U", "V", "W", "X", "Y", "Z", "0", "1", "2", "3", "4", "5", "6", "7",
   "8", "9", "_"}

\* The identifier that starts at position j of text.
RECURSIVE IdentAt(_, _)
IdentAt(text, j) ==
  IF j > Len(text) \/ text[j] \notin IdChars THEN <<>>
  ELSE <<text[j]>> \o IdentAt(text, j + 1)

\* Sigma on a spelled identifier.
SigmaWord(w) ==
  IF \E n \in SigmaNames : Chars(n) = w
  THEN Chars(Sigma(CHOOSE n \in SigmaNames : Chars(n) = w))
  ELSE w

\* A text with Sigma applied to each identifier in it.
RECURSIVE RenameTextFrom(_, _)
RenameTextFrom(text, j) ==
  IF j > Len(text) THEN <<>>
  ELSE IF text[j] \in IdChars
       THEN LET w == IdentAt(text, j)
            IN SigmaWord(w) \o RenameTextFrom(text, j + Len(w))
       ELSE <<text[j]>> \o RenameTextFrom(text, j + 1)

RenameText(text) == RenameTextFrom(text, 1)

\* C8: lowering is input-driven.  When a runtime has returned the text for
\* a clause sequence, lowering the sequence renamed by Sigma returns that
\* text renamed by Sigma, in the DuckDB dialect and in the SQLGlot dialect.
C8_RenamingCommutes ==
  (pc = "returned") =>
    /\ runtime = "duckdb" =>
         DuckLower(RenameNodes(clauses)) =
           [status |-> "returned", text |-> RenameText(result)]
    /\ runtime = "sqlglot" =>
         GlotLower(RenameNodes(clauses)) =
           [status |-> "returned", text |-> RenameText(result)]

\* The state machine and the whole lowerings agree on what is returned.
LoweringsAgree ==
  /\ (runtime = "duckdb" /\ pc \in {"returned", "raised"}) =>
       DuckLower(clauses) = [status |-> pc, text |-> result]
  /\ (runtime = "sqlglot" /\ pc \in {"returned", "raised"}) =>
       GlotLower(clauses) = [status |-> pc, text |-> result]

\* ------------------------------------------------------------------ C9

\* The function classes DuckDBExpressionVisitor has a branch or a
\* visit_*_function method for.
DuckFunctions ==
  {"CountFunction", "AverageFunction", "SumFunction", "ModuloFunction",
   "ExponentFunction"}

\* The function classes SQLGlotExpressionVisitor has a visit_*_function
\* method for.
GlotFunctions == {cls \in DuckFunctions : GlotFunctionName(cls) # ""}

RECURSIVE FunctionsIn(_)
RECURSIVE FunctionsInAll(_)
FunctionsInAll(xs) ==
  IF xs = <<>> THEN {} ELSE FunctionsIn(xs[1]) \cup FunctionsInAll(Tail(xs))

\* The function classes a clause or expression applies.
FunctionsIn(x) ==
  CASE IsA(x, "FunctionExpression") -> {x.function} \cup FunctionsInAll(x.parameters)
    [] IsA(x, "ColumnAliasExpression") -> FunctionsIn(x.reference)
    [] x.kind \in {"ComputedColumnAliasExpression", "OperandExpression",
                   "UnaryExpression", "LambdaExpression", "OrderByExpression",
                   "FilterClause", "GroupByClause"} -> FunctionsIn(x.expression)
    [] IsA(x, "BinaryExpression") -> FunctionsIn(x.left) \cup FunctionsIn(x.right)
    [] IsA(x, "MapReduceExpression") ->
         FunctionsIn(x.map_expression) \cup FunctionsIn(x.reduce_expression)
    [] IsA(x, "IfExpression") ->
         FunctionsIn(x.test) \cup FunctionsIn(x.body) \cup FunctionsIn(x.orelse)
    [] IsA(x, "JoinExpression") -> FunctionsIn(x.on)
    [] IsA(x, "GroupByExpression") ->
         FunctionsInAll(x.selections) \cup FunctionsInAll(x.expressions)
         \cup FunctionsIn(x.having)
    [] x.kind \in {"SelectionClause", "ExtendClause", "DistinctClause"} ->
         FunctionsInAll(x.expressions)
    [] IsA(x, "RenameClause") -> FunctionsInAll(x.columnAliases)
    [] IsA(x, "JoinClause") -> FunctionsIn(x.on_clause)
    [] IsA(x, "OrderByClause") -> FunctionsInAll(x.ordering)
    [] OTHER -> {}

\* C9: for a sequence with a From clause, executable_to_string returns a
\* query only when every function the clauses apply is one the dialect's
\* visitor supports; a clause with an unsupported function makes the call
\* raise, it is neither skipped nor lowered through a fallback name.
C9_UnsupportedFails ==
  (pc = "returned" /\ FromCount(clauses) >= 1) =>
    \A p \in 1..Len(clauses) :
      /\ runtime = "duckdb" => FunctionsIn(clauses[p]) \subseteq DuckFunctions
      /\ runtime = "sqlglot" => FunctionsIn(clauses[p]) \subseteq GlotFunctions

\* ------------------------------------------------------------------ C10

\* The column an operand of a join condition refers to, through Operand and
\* ColumnAlias wrappers; "" when it refers to none.
RECURSIVE ColumnOf(_)
ColumnOf(x) ==
  CASE IsA(x, "ColumnReferenceExpression") -> x.name
    [] IsA(x, "OperandExpression") -> ColumnOf(x.expression)
    [] IsA(x, "ColumnAliasExpression") -> ColumnOf(x.reference)
    [] OTHER -> ""

\* The clause is a Join whose ON condition is an equality of two columns.
EqualityJoin(clause) ==
  /\ IsA(clause, "JoinClause")
  /\ IsA(clause.on_clause, "JoinExpression")
  /\ IsA(clause.on_clause.on, "BinaryExpression")
  /\ clause.on_clause.on.operator = "EqualsBinaryOperator"
  /\ ColumnOf(clause.on_clause.on.left) # ""
  /\ ColumnOf(clause.on_clause.on.right) # ""

\* C10: for every Join with an equality ON condition the text the DuckDB
\* lowering returns names the condition's actual left and right columns,
\* and `unknown` never stands for a column.
C10_JoinNamesColumns ==
  (runtime = "duckdb" /\ pc = "returned") =>
    /\ ~Contains(result, <<".">> \o Chars("unknown"))
    /\ \A p \in 1..Len(clauses) :
         EqualityJoin(clauses[p]) =>
           Contains(result,
                    <<".">> \o Chars(ColumnOf(clauses[p].on_clause.on.left))
                    \o <<" ", "=", " ">> \o Chars(clauses[p].from_clause.table)
                    \o <<".">> \o Chars(ColumnOf(clauses[p].on_clause.on.right)))

\* ------------------------------------------------------------------ C11

RECURSIVE AliasesIn(_)
RECURSIVE AliasesInAll(_)
AliasesInAll(xs) ==
  IF xs = <<>> THEN {} ELSE AliasesIn(xs[1]) \cup AliasesInAll(Tail(xs))

\* The row-variable aliases of the ColumnAlias nodes inside a clause or
\* expression.
AliasesIn(x) ==
  CASE IsA(x, "ColumnAliasExpression") -> {x.alias} \cup AliasesIn(x.reference)
    [] IsA(x, "FunctionExpression") -> AliasesInAll(x.parameters)
    [] x.kind \in {"ComputedColumnAliasExpression", "OperandExpression",
                   "UnaryExpression", "LambdaExpression", "OrderByExpression",
                   "FilterClause", "GroupByClause"} -> AliasesIn(x.expression)
    [] IsA(x, "BinaryExpression") -> AliasesIn(x.left) \cup AliasesIn(x.right)
    [] IsA(x, "MapReduceExpression") ->
         AliasesIn(x.map_expression) \cup AliasesIn(x.reduce_expression)
    [] IsA(x, "IfExpression") ->
         AliasesIn(x.test) \cup AliasesIn(x.body) \cup AliasesIn(x.orelse)
    [] IsA(x, "JoinExpression") -> AliasesIn(x.on)
    [] IsA(x, "GroupByExpression") ->
         AliasesInAll(x.selections) \cup AliasesInAll(x.expressions)
         \cup AliasesIn(x.having)
    [] IsA(x, "ExtendClause") -> AliasesInAll(x.expressions)
    [] IsA(x, "JoinClause") -> AliasesIn(x.on_clause)
    [] IsA(x, "OrderByClause") -> AliasesInAll(x.ordering)
    [] OTHER -> {}

RECURSIVE EraseAliases(_)
\* An expression with every ColumnAlias node replaced by the column it
\* refers to.
EraseAliases(x) ==
  CASE IsA(x, "ColumnAliasExpression") -> EraseAliases(x.reference)
    [] IsA(x, "OperandExpression") -> [x EXCEPT !.expression = EraseAliases(@)]
    [] IsA(x, "BinaryExpression") ->
         [x EXCEPT !.left = EraseAliases(@), !.right = EraseAliases(@)]
    [] OTHER -> x

\* Whether pat occurs in text as whole words: not followed by a character
\* of an identifier.
ContainsWord(text, pat) ==
  \E j \in 1..Len(text) :
    /\ MatchAt(text, pat, j)
    /\ (j + Len(pat) > Len(text) \/ text[j + Len(pat)] \notin IdChars)

\* C11: in the text the DuckDB lowering returns, a ColumnAlias inside a
\* filter predicate, join condition, computed extend expression, group-by
\* or order-by item leaves no `AS <alias>` behind, whatever the alias is
\* called, and a filter predicate is emitted as it is without its aliases.
C11_NoAliasInSubExpressions ==
  (runtime = "duckdb" /\ pc = "returned") =>
    \A p \in 1..Len(clauses) :
      /\ \A a \in AliasesIn(clauses[p]) :
           ~ContainsWord(result, <<" AS ">> \o Chars(a))
      /\ IsA(clauses[p], "FilterClause") =>
           Contains(result, <<" ", "WHERE", " ">>
                            \o DuckVisit(EraseAliases(clauses[p].expression)))

\* ------------------------------------------------------------------ C12

\* A MapReduce whose reduce lambda applies a function to its variable.
ReducesByFunction(x) ==
  /\ IsA(x, "MapReduceExpression")
  /\ IsA(x.map_expression, "LambdaExpression")
  /\ IsA(x.reduce_expression, "LambdaExpression")
  /\ IsA(x.reduce_expression.expression, "FunctionExpression")
  /\ Len(x.reduce_expression.expression.parameters) = 1
  /\ IsA(x.reduce_expression.expression.parameters[1], "VariableAliasExpression")

\* The MapReduce expressions computed by the columns of a list.
MapReducesAmong(exprs) ==
  {exprs[k].expression : k \in {j \in 1..Len(exprs) :
      /\ IsA(exprs[j], "ComputedColumnAliasExpression")
      /\ ReducesByFunction(exprs[j].expression)}}

\* The MapReduce expressions of the aggregations of a GroupBy clause or the
\* columns of an Extend clause.
MapReducesOf(clause) ==
  IF IsA(clause, "GroupByClause") /\ IsA(clause.expression, "GroupByExpression")
  THEN MapReducesAmong(clause.expression.expressions)
  ELSE IF IsA(clause, "ExtendClause") THEN MapReducesAmong(clause.expressions)
  ELSE {}

\* `F(<lowered map expression>)` in the text of each dialect.
ReducedTextDuck(m) ==
  DuckFuncName(m.reduce_expression.expression.function) \o <<"(">>
  \o DuckVisit(EraseAliases(m.map_expression.expression)) \o <<")">>

ReducedTextGlot(m) ==
  GSql(GFunc(GlotFunctionName(m.reduce_expression.expression.function),
             <<GlotVisit(EraseAliases(m.map_expression.expression))>>))

\* C12: when [From, clause] has been lowered and the clause computes a
\* MapReduce whose reduce lambda is a function F of its variable, the text
\* holds F applied once to the lowered map expression, and not F applied
\* to the lambda's variable.
C12_MapReduceAppliesFunction ==
  ( /\ pc = "returned"
    /\ Len(clauses) = 2
    /\ IsA(clauses[1], "FromClause") ) =>
      \A m \in MapReducesOf(clauses[2]) :
        /\ runtime = "duckdb" =>
             /\ Contains(result, ReducedTextDuck(m))
             /\ ~Contains(result,
                    DuckFuncName(m.reduce_expression.expression.function)
                    \o <<"(">>
                    \o Chars(m.reduce_expression.expression.parameters[1].alias)
                    \o <<")">>)
        /\ runtime = "sqlglot" => Contains(result, ReducedTextGlot(m))

\* ------------------------------------------------------------------ C13

\* The function applications of a class among the columns an Extend
\* computes under a lambda.
AppliedIn(clause, cls) ==
  IF ~IsA(clause, "ExtendClause") THEN {}
  ELSE {clause.expressions[k].expression.expression :
          k \in {j \in 1..Len(clause.expressions) :
            /\ IsA(clause.expressions[j], "ComputedColumnAliasExpression")
            /\ IsA(clause.expressions[j].expression, "LambdaExpression")
            /\ IsA(clause.expressions[j].expression.expression, "FunctionExpression")
            /\ clause.expressions[j].expression.expression.function = cls}}

\* `NAME(<args>)` with the arguments as each dialect lowers them, in order.
\* The DuckDB text spells a name it derives from a class one character at a
\* time, so a name it has no branch for is given by its characters.
CallTextDuck(fname, f) ==
  fname \o <<"(">> \o JoinComma(DuckVisitAll(f.parameters)) \o <<")">>

CallTextGlot(fname, f) == GSql(GFunc(fname, GlotFunctionArgs(fname, f.parameters)))

\* C13: when [From, Extend] has been lowered, each Modulo function of the
\* Extend appears as MOD(<args>) and each Exponent function as POW(<args>),
\* arguments in their given order, in the DuckDB dialect and in the
\* SQLGlot dialect.
C13_ModuloAndExponent ==
  ( /\ pc = "returned"
    /\ Len(clauses) = 2
    /\ IsA(clauses[1], "FromClause") ) =>
      /\ \A f \in AppliedIn(clauses[2], "ModuloFunction") :
           /\ runtime = "duckdb" => Contains(result, CallTextDuck(<<"MOD">>, f))
           /\ runtime = "sqlglot" => Contains(result, CallTextGlot("MOD", f))
      /\ \A f \in AppliedIn(clauses[2], "ExponentFunction") :
           /\ runtime = "duckdb" => Contains(result, CallTextDuck(<<"P", "O", "W">>, f))
           /\ runtime = "sqlglot" => Contains(result, CallTextGlot("POW", f))

\* ------------------------------------------------------------------ C14

\* The clause sequences a caller lowers again and again.
RelowerInputs ==
  { <<FromClause("hr", "employees"), ExtendBonus, FilterBonus>>,
    <<FromClause("hr", "employees"), GroupByDept>>,
    <<FromClause("hr", "employees"), JoinLambda, LimitClause(IntegerLiteral(10))>>,
    <<FromClause("test_db", "table"), ExtendModuloExponent>>,
    <<FromClause("test_db", "table"), GroupByMapReduce>>,
    <<FromClause("hr", "employees"), ExtendOver>>,
    <<FilterBonus>> }

\* What a call of executable_to_string gave its caller.
Outcome ==
  [runtime |-> runtime, clauses |-> clauses, status |-> pc,
   text |-> IF pc = "returned" THEN result ELSE <<>>]

\* The caller holds one clause sequence before its first call.
InitRelower ==
  /\ InitHost
  /\ clauses \in RelowerInputs
  /\ runtime = "none"
  /\ pc = "input"
  /\ i = 0
  /\ current_cte = <<>>
  /\ cte_queries = <<>>
  /\ query = NoneVal
  /\ join_todo = <<>>
  /\ applied = <<>>
  /\ skipped = <<>>
  /\ result = <<>>
  /\ first = NoneVal
  /\ between = FALSE
  /\ calls = 0
  /\ columns = <<>>
  /\ before = NoneVal
  /\ op = NoneVal
  /\ passed_table = <<>>
  /\ sibling = <<>>
  /\ made_by = "none"

\* The caller keeps the outcome of the call that has just completed.
Remember ==
  /\ pc \in {"returned", "raised"}
  /\ first = NoneVal
  /\ first' = Outcome
  /\ UNCHANGED <<clauses, runtime, pc, i, current_cte, cte_queries, query,
                 join_todo, applied, skipped, result, between, calls, buildVars,
                 hostVars>>

\* The caller calls executable_to_string again, on the same runtime object
\* or another, with the clause sequence cs.
CallAgain(cs) ==
  /\ pc \in {"returned", "raised"}
  /\ calls < MaxCalls
  /\ calls' = calls + 1
  /\ between' = (between \/ (first # NoneVal
                             /\ <<runtime, clauses>> # <<first.runtime, first.clauses>>))
  /\ clauses' = cs
  /\ pc' = "input"
  /\ UNCHANGED <<runtime, i, current_cte, cte_queries, query, join_todo,
                 applied, skipped, result, first, buildVars, hostVars>>

NextRelower ==
  \/ DuckStart
  \/ DuckLoop
  \/ DuckReturn
  \/ GlotStart
  \/ GlotJoin
  \/ GlotClause
  \/ GlotReturn
  \/ Remember
  \/ \E cs \in RelowerInputs : CallAgain(cs)

SpecRelower == InitRelower /\ [][NextRelower]_vars

DictHas(d, k) == \E j \in 1..Len(d) : d[j].name = k

DictGet(d, k) == d[CHOOSE j \in 1..Len(d) : d[j].name = k].type

DictSet(d, k, v) ==
  IF DictHas(d, k)
  THEN [j \in 1..Len(d) |-> IF d[j].name = k THEN [name |-> k, type |-> v] ELSE d[j]]
  ELSE Append(d, [name |-> k, type |-> v])

DictKeys(d) == [j \in 1..Len(d) |-> d[j].name]

\* [ColumnReferenceExpression(name=col) for col in columns]
RECURSIVE ColumnReferences(_)
ColumnReferences(names) ==
  IF names = <<>> THEN <<>>
  ELSE <<ColumnReferenceExpression(names[1])>> \o ColumnReferences(Tail(names))

\* PandasParser.parse_select, its loop over table.columns.
RECURSIVE AddMissingColumns(_, _)
AddMissingColumns(names, d) ==
  IF names = <<>> THEN d
  ELSE AddMissingColumns(Tail(names),
         IF DictHas(d, names[1]) THEN d ELSE DictSet(d, names[1], "None"))

\* PandasParser.parse_rename, its loop over table.columns; a rename is a
\* pair <<old_name, new_name>>.
RECURSIVE ParseRenameColumns(_, _)
ParseRenameColumns(renames, d) ==
  IF renames = <<>> THEN d
  ELSE ParseRenameColumns(Tail(renames),
         IF DictHas(d, renames[1][1])
         THEN DictSet(d, renames[1][2], DictGet(d, renames[1][1]))
         ELSE d)

\* [ColumnAliasExpression(alias=new_name, reference=ColumnReferenceExpression(old_name)) ...]
RECURSIVE RenameAliases(_)
RenameAliases(renames) ==
  IF renames = <<>> THEN <<>>
  ELSE <<ColumnAliasExpression(renames[1][2], ColumnReferenceExpression(renames[1][1]))>>
       \o RenameAliases(Tail(renames))

\* `table.columns[new_col] = None` for each new column, in order.
RECURSIVE SetColumnsNone(_, _)
SetColumnsNone(names, d) ==
  IF names = <<>> THEN d ELSE SetColumnsNone(Tail(names), DictSet(d, names[1], "None"))

\* The alias of each entry of an extend or aggregation dict.
EntryAliases(entries) == [j \in 1..Len(entries) |-> entries[j].alias]

\* PandasParser.parse_extend, one expression string: `left + right`,
\* `left * right` or a column name; right is digits or a column name.
ParseExtendExpression(e) ==
  LET right == IF e.right.isdigit
               THEN OperandExpression(LiteralExpression(IntegerLiteral(e.right.val)))
               ELSE OperandExpression(ColumnReferenceExpression(e.right.name))
      left == OperandExpression(ColumnReferenceExpression(e.left))
  IN IF e.sym = "+" THEN BinaryExpression(left, right, "AddBinaryOperator")
     ELSE IF e.sym = "*" THEN BinaryExpression(left, right, "MultiplyBinaryOperator")
     ELSE ColumnReferenceExpression(e.left)

RECURSIVE ParseExtendExpressions(_)
ParseExtendExpressions(entries) ==
  IF entries = <<>> THEN <<>>
  ELSE <<ComputedColumnAliasExpression(entries[1].alias,
                                       ParseExtendExpression(entries[1]))>>
       \o ParseExtendExpressions(Tail(entries))

\* PandasParser.parse_group_by, one aggregation: `count(col)`, or any other
\* string, which is taken as the column of a count.
RECURSIVE ParseAggregations(_)
ParseAggregations(entries) ==
  IF entries = <<>> THEN <<>>
  ELSE <<ComputedColumnAliasExpression(
           entries[1].alias,
           FunctionExpression("CountFunction",
                              <<ColumnReferenceExpression(entries[1].column)>>))>>
       \o ParseAggregations(Tail(entries))

\* true_condition of parse_group_by.
TrueCondition ==
  BinaryExpression(OperandExpression(LiteralExpression(BooleanLiteral(TRUE))),
                   OperandExpression(LiteralExpression(BooleanLiteral(TRUE))),
                   "EqualsBinaryOperator")

\* _add_aggregation_function: the function class of a func_name.
AggregationFunctionOf(func_name) ==
  CASE func_name = "count" -> "CountFunction"
    [] func_name \in {"mean", "avg", "average"} -> "AverageFunction"
    [] func_name = "sum" -> "SumFunction"
    [] func_name = "min" -> "MinFunction"
    [] func_name = "max" -> "MaxFunction"
    [] OTHER -> "CountFunction"

\* _patch_assign: the expressions of the keyword arguments that are not
\* callable.
RECURSIVE AssignExpressions(_)
AssignExpressions(kwargs) ==
  IF kwargs = <<>> THEN <<>>
  ELSE (IF kwargs[1].callable THEN <<>>
        ELSE <<ComputedColumnAliasExpression(
                 kwargs[1].alias,
                 LiteralExpression(IntegerLiteral(kwargs[1].value)))>>)
       \o AssignExpressions(Tail(kwargs))

\* ------------------------------------------------------------------ builder inputs

InitialTables ==
  { [table |-> "employees",
     columns |-> <<[name |-> "id", type |-> "int"],
                   [name |-> "name", type |-> "str"],
                   [name |-> "salary", type |-> "float"],
                   [name |-> "departmentId", type |-> "int"]>>],
    [table |-> "departments",
     columns |-> <<[name |-> "id", type |-> "int"],
                   [name |-> "name", type |-> "str"]>>] }

SelectInputs == { <<"name">>, <<"salary", "id">>, <<"name", "bonus">> }

RenameInputs ==
  { << <<"salary", "paid">> >>,
    << <<"id", "key">>, <<"name", "key">> >> }

ExtendInputs ==
  { <<[alias |-> "bonus", left |-> "salary", sym |-> "*", right |-> [isdigit |-> TRUE, val |-> 2]]>>,
    <<[alias |-> "name", left |-> "salary", sym |-> "+", right |-> [isdigit |-> FALSE, name |-> "id"]]>> }

GroupByInputs ==
  { [by |-> <<"departmentId">>,
     agg |-> <<[alias |-> "headcount", column |-> "id"]>>],
    [by |-> <<"name">>,
     agg |-> <<[alias |-> "n", column |-> "salary"]>>] }

AssignInputs ==
  { <<[alias |-> "bonus", callable |-> FALSE, value |-> 5]>>,
    <<[alias |-> "bonus", callable |-> TRUE]>> }

AggregationInputs == { <<"salary", "sum">>, <<"id", "count">> }

\* ------------------------------------------------------------------ builder operations

\* Query.from_table: a copy of the table's columns and a list holding the
\* From clause.
InitBuild ==
  /\ InitHost
  /\ \E t \in InitialTables, m \in {"Query", "LegendQL"} :
       /\ clauses = <<IF m = "Query" THEN FromClause("hr", t.table)
                                     ELSE FromClause(t.table, t.table)>>
       /\ columns = t.columns
       /\ passed_table = t.columns
       /\ sibling = t.columns
       /\ made_by = m
  /\ runtime = "none"
  /\ pc = "build"
  /\ i = 0
  /\ current_cte = <<>>
  /\ cte_queries = <<>>
  /\ query = NoneVal
  /\ join_todo = <<>>
  /\ applied = <<>>
  /\ skipped = <<>>
  /\ result = <<>>
  /\ first = NoneVal
  /\ between = FALSE
  /\ calls = 0
  /\ before = NoneVal
  /\ op = NoneVal

\* What is kept of a builder call: the operation, the method that ran it,
\* its arguments, and whether it raised.
Operation(operation, via, cols, olds, aliases) ==
  [operation |-> operation, via |-> via, cols |-> cols, olds |-> olds,
   aliases |-> aliases, raised |-> FALSE]

\* A builder call made on the query: the list and the columns it found.
Called(o) ==
  /\ pc = "build"
  /\ Len(clauses) < MaxClauses
  /\ made_by = "Query"
  /\ before' = [clauses |-> clauses, columns |-> columns]
  /\ op' = o
  /\ UNCHANGED <<pc, lowerVars, callVars, hostVars, passed_table, sibling, made_by>>

\* Query.select
QuerySelect(names) ==
  /\ Called(Operation("select", "Query", names, <<>>, <<>>))
  /\ clauses' = Append(clauses, SelectionClause(ColumnReferences(names)))
  /\ UNCHANGED columns

\* Query.rename
QueryRename(renames) ==
  /\ Called(Operation("rename", "Query", <<>>,
                      [j \in 1..Len(renames) |-> renames[j][1]],
                      [j \in 1..Len(renames) |-> renames[j][2]]))
  /\ clauses' = Append(clauses, RenameClause(RenameAliases(renames)))
  /\ UNCHANGED columns

\* Query.extend
QueryExtend(extend) ==
  /\ Called(Operation("extend", "Query", <<>>, <<>>,
                      [j \in 1..Len(extend) |-> extend[j].alias]))
  /\ clauses' = Append(clauses, ExtendClause(extend))
  /\ UNCHANGED columns

\* Query.filter
QueryFilter(filter_clause) ==
  /\ Called(Operation("filter", "Query", <<>>, <<>>, <<>>))
  /\ clauses' = Append(clauses, FilterClause(filter_clause))
  /\ UNCHANGED columns

\* Query.group_by
QueryGroupBy(selections, group_by) ==
  /\ Called(Operation("group_by", "Query",
                      [j \in 1..Len(selections) |-> selections[j].name], <<>>,
                      [j \in 1..Len(group_by) |-> group_by[j].alias]))
  /\ clauses' = Append(clauses,
                       GroupByClause(GroupByExpression(selections, group_by, NoneVal)))
  /\ UNCHANGED columns

\* Query.limit
QueryLimit(limit) ==
  /\ Called(Operation("limit", "Query", <<>>, <<>>, <<>>))
  /\ clauses' = Append(clauses, LimitClause(IntegerLiteral(limit)))
  /\ UNCHANGED columns

\* Query.offset
QueryOffset(offset) ==
  /\ Called(Operation("offset", "Query", <<>>, <<>>, <<>>))
  /\ clauses' = Append(clauses, OffsetClause(IntegerLiteral(offset)))
  /\ UNCHANGED columns

\* Query.order_by
QueryOrderBy(ordering) ==
  /\ Called(Operation("order_by", "Query", <<>>, <<>>, <<>>))
  /\ clauses' = Append(clauses, OrderByClause(ordering))
  /\ UNCHANGED columns

\* Query.join
QueryJoin(database, table, join_type, on_clause) ==
  /\ Called(Operation("join", "Query", <<>>, <<>>, <<>>))
  /\ clauses' = Append(clauses, JoinClause(FromClause(database, table), join_type,
                                           JoinExpression(on_clause)))
  /\ UNCHANGED columns

\* PandasQL.select, with PandasParser.parse_select.
PandasSelect(names) ==
  /\ Called(Operation("select", "PandasQL", names, <<>>, <<>>))
  /\ columns' = AddMissingColumns(names, columns)
  /\ clauses' = Append(clauses, SelectionClause(ColumnReferences(names)))

\* PandasQL.rename, with PandasParser.parse_rename.
PandasRename(renames) ==
  /\ Called(Operation("rename", "PandasQL", <<>>,
                      [j \in 1..Len(renames) |-> renames[j][1]],
                      [j \in 1..Len(renames) |-> renames[j][2]]))
  /\ columns' = ParseRenameColumns(renames, columns)
  /\ clauses' = Append(clauses, RenameClause(RenameAliases(renames)))

\* PandasQL.extend, with PandasParser.parse_extend.
PandasExtend(expressions) ==
  /\ Called(Operation("extend", "PandasQL", <<>>, <<>>, EntryAliases(expressions)))
  /\ columns' = SetColumnsNone(EntryAliases(expressions), columns)
  /\ clauses' = Append(clauses, ExtendClause(ParseExtendExpressions(expressions)))

\* PandasQL.group_by, with PandasParser.parse_group_by.
PandasGroupBy(by, agg) ==
  /\ Called(Operation("group_by", "PandasQL", by, <<>>, EntryAliases(agg)))
  /\ columns' = SetColumnsNone(EntryAliases(agg), AddMissingColumns(by, columns))
  /\ clauses' = Append(clauses,
                       GroupByClause(GroupByExpression(ColumnReferences(by),
                                                       ParseAggregations(agg),
                                                       TrueCondition)))

\* LegendQL.take
Take(offset, limit) ==
  /\ Called(Operation("take", "LegendQL", <<>>, <<>>, <<>>))
  /\ clauses' = clauses \o <<OffsetClause(IntegerLiteral(offset)),
                             LimitClause(IntegerLiteral(limit))>>
  /\ UNCHANGED columns

\* _patch_assign (DataFrame.assign)
PatchAssign(kwargs) ==
  /\ Called(Operation("extend", "DataFrame.assign", <<>>, <<>>, EntryAliases(kwargs)))
  /\ clauses' = IF AssignExpressions(kwargs) # <<>>
                THEN Append(clauses, ExtendClause(AssignExpressions(kwargs)))
                ELSE clauses
  /\ UNCHANGED columns

\* _patch_groupby (DataFrame.groupby)
PatchGroupby(by) ==
  /\ Called(Operation("group_by", "DataFrame.groupby", by, <<>>, <<>>))
  /\ clauses' = Append(clauses,
                       GroupByClause(GroupByExpression(ColumnReferences(by), <<>>,
                                                       NoneVal)))
  /\ UNCHANGED columns

\* _patch_groupby_agg with func = {column: func_name}: one call of
\* _add_aggregation_function.
PatchGroupbyAgg(column, func_name) ==
  LET groups == Positions(clauses, "GroupByClause")
      last == groups[Len(groups)]
      func_expr == FunctionExpression(AggregationFunctionOf(func_name),
                                      <<ColumnReferenceExpression(column)>>)
  IN /\ pc = "build"
     /\ made_by = "Query"
     /\ groups # <<>> => Len(clauses[last].expression.expressions) < MaxAggregations
     /\ before' = [clauses |-> clauses, columns |-> columns]
     /\ op' = Operation("aggregate", "GroupBy.agg", <<column>>, <<>>, <<>>)
     /\ clauses' = IF groups = <<>> THEN clauses
                   ELSE [clauses EXCEPT ![last].expression.expressions =
                                          Append(@, func_expr)]
     /\ UNCHANGED <<pc, columns, lowerVars, callVars, hostVars, passed_table, sibling,
                    made_by>>

\* What is kept of a join call: the other builder's column names, the
\* columns the parser renamed, the join type asked for and the error the
\* call raised ("none": it returned).
JoinOperation(via, other, olds, how, error) ==
  [operation |-> "join", via |-> via, cols |-> DictKeys(other.columns), olds |-> olds,
   aliases |-> <<>>, raised |-> (error # "none"), how |-> how, error |-> error]

\* PandasParser.parse_join: col = col for each column of `on`, chained by AND.
RECURSIVE JoinConditions(_, _)
JoinConditions(on, k) ==
  LET condition == BinaryExpression(
                     OperandExpression(ColumnReferenceExpression(on[k])),
                     OperandExpression(ColumnReferenceExpression(on[k])),
                     "EqualsBinaryOperator")
  IN IF k = 1 THEN condition
     ELSE BinaryExpression(OperandExpression(JoinConditions(on, k - 1)),
                           OperandExpression(condition), "AndBinaryOperator")

ParseJoin(on) == JoinExpression(JoinConditions(on, Len(on)))

\* The builders a join is made with.
JoinOthers ==
  InitialTables \cup
  { [table |-> "offices",
     columns |-> <<[name |-> "office", type |-> "str"],
                   [name |-> "city", type |-> "str"]>>] }

\* PandasQL.join, with PandasParser.parse_join.
PandasJoin(other, on, how) ==
  /\ Called(JoinOperation("PandasQL", other, <<>>, how,
                          IF how \in {"inner", "left"} THEN "none" ELSE "ValueError"))
  /\ clauses' = IF how \in {"inner", "left"}
                THEN Append(clauses,
                            JoinClause(FromClause("hr", other.table),
                                       IF how = "inner" THEN "InnerJoinType"
                                                        ELSE "LeftJoinType",
                                       ParseJoin(on)))
                ELSE clauses
  /\ UNCHANGED columns

\* A call on a dsl LegendQL builder: its Schema holds the columns dict it
\* was given, so the caller's dict and every other builder made from it
\* see what the call does to the columns.
DslCalled(o, new_columns) ==
  /\ pc = "build"
  /\ made_by = "LegendQL"
  /\ before' = [clauses |-> clauses, columns |-> columns]
  /\ op' = o
  /\ columns' = new_columns
  /\ passed_table' = new_columns
  /\ sibling' = new_columns
  /\ UNCHANGED <<pc, lowerVars, callVars, hostVars, made_by>>

\* dsl metamodel clauses.
SelectClause(exprs) == [kind |-> "SelectClause", expressions |-> exprs]

DslJoinClause(right, condition, type) ==
  [kind |-> "JoinClause", right |-> right, condition |-> condition, type |-> type]

\* The schema columns after the dsl parser has parsed a selection into the
\* cleared schema: the selected columns, with the types they had.
RECURSIVE DslParseSelect(_, _)
DslParseSelect(names, d) ==
  IF names = <<>> THEN <<>>
  ELSE (IF DictHas(d, names[1])
        THEN <<[name |-> names[1], type |-> DictGet(d, names[1])]>> ELSE <<>>)
       \o DslParseSelect(Tail(names), d)

\* The schema columns after the dsl parser has parsed the renames of a
\* join: each renamed column goes by its new name.
DslParseJoin(renames, d) ==
  [j \in 1..Len(d) |->
     IF \E k \in 1..Len(renames) : renames[k][1] = d[j].name
     THEN [name |-> renames[CHOOSE k \in 1..Len(renames) : renames[k][1] = d[j].name][2],
           type |-> d[j].type]
     ELSE d[j]]

\* dict.update(other)
RECURSIVE DictUpdate(_, _)
DictUpdate(d, other) ==
  IF other = <<>> THEN d
  ELSE DictUpdate(DictSet(d, other[1].name, other[1].type), Tail(other))

\* dsl LegendQL.select: clears the schema's columns, parses, appends the
\* clause, then calls Schema.update_name without its argument, which
\* raises TypeError.
DslSelect(names) ==
  /\ Len(clauses) < MaxClauses
  /\ DslCalled([Operation("select", "LegendQL", names, <<>>, <<>>) EXCEPT !.raised = TRUE],
               DslParseSelect(names, columns))
  /\ clauses' = Append(clauses, SelectClause(ColumnReferences(names)))

\* dsl LegendQL._join. parse_join gives an expression, a pair of the
\* expression and a rename (shape "renamed"), or something else; the
\* clauses are appended before the schemas are compared.
DslJoin(lq, shape, renames, join_type) ==
  LET parsed == IF shape = "renamed" THEN DslParseJoin(renames, columns) ELSE columns
      condition == JoinDepartments.on_clause.on
      join_clause == DslJoinClause(lq.table, condition, join_type)
      overlapping == \E j \in 1..Len(parsed) : DictHas(lq.columns, parsed[j].name)
      error == IF shape = "other" THEN "Badly formed Join"
               ELSE IF overlapping THEN "overlapping columns"
               ELSE "TypeError"
  IN /\ Len(clauses) + 2 <= MaxClauses
     /\ DslCalled(JoinOperation("LegendQL", lq,
                                IF shape = "renamed"
                                THEN [k \in 1..Len(renames) |-> renames[k][1]]
                                ELSE <<>>,
                                IF join_type = "INNER" THEN "inner" ELSE "left", error),
                  IF shape = "other" \/ overlapping THEN parsed
                  ELSE DictUpdate(parsed, lq.columns))
     /\ clauses' =
          IF shape = "expression" THEN Append(clauses, join_clause)
          ELSE IF shape = "renamed"
               THEN clauses \o <<RenameClause(RenameAliases(renames)), join_clause>>
               ELSE clauses

NextBuild ==
  \/ \E names \in SelectInputs : QuerySelect(names)
  \/ \E renames \in RenameInputs : QueryRename(renames)
  \/ QueryExtend(ExtendBonus.expressions)
  \/ QueryFilter(FilterBonus.expression)
  \/ QueryGroupBy(GroupByDept.expression.selections,
                  GroupByDept.expression.expressions)
  \/ QueryLimit(10)
  \/ QueryOffset(5)
  \/ QueryOrderBy(<<OrderByExpression("DescendingOrderType",
                                      ColumnReferenceExpression("salary"))>>)
  \/ QueryJoin("hr", "departments", "LeftJoinType", JoinDepartments.on_clause.on)
  \/ \E names \in SelectInputs : PandasSelect(names)
  \/ \E renames \in RenameInputs : PandasRename(renames)
  \/ \E expressions \in ExtendInputs : PandasExtend(expressions)
  \/ \E g \in GroupByInputs : PandasGroupBy(g.by, g.agg)
  \/ Take(5, 10)
  \/ \E kwargs \in AssignInputs : PatchAssign(kwargs)
  \/ PatchGroupby(<<"departmentId">>)
  \/ \E a \in AggregationInputs : PatchGroupbyAgg(a[1], a[2])
  \/ \E other \in JoinOthers, how \in {"inner", "left", "outer"} :
       PandasJoin(other, <<"id">>, how)
  \/ \E names \in SelectInputs : DslSelect(names)
  \/ \E lq \in JoinOthers, shape \in {"expression", "renamed", "other"},
        join_type \in {"INNER", "LEFT"} :
       DslJoin(lq, shape, << <<"id", "employee_id">> >>, join_type)

SpecBuild == InitBuild /\ [][NextBuild]_vars

\* ------------------------------------------------------------------ C15

\* Whether the list xs is the beginning of the list ys.
IsPrefix(xs, ys) == Len(xs) <= Len(ys) /\ SubSeq(ys, 1, Len(xs)) = xs

\* C15: after a builder operation the clause list it found is a prefix of
\* the clause list it left: clauses are only appended, and a clause that
\* was in the list is neither modified, removed nor moved.
C15_ClauseListAppendOnly ==
  op # NoneVal => IsPrefix(before.clauses, clauses)

\* ------------------------------------------------------------------ C16

\* The builder operations of the query language.
BuilderOperations ==
  {"select", "extend", "filter", "rename", "group_by", "join", "order_by",
   "limit", "offset", "take"}

\* C16: a call of a builder operation that did not fail left the clause
\* list exactly one clause longer than it found it.
C16_OneClausePerCall ==
  (op # NoneVal /\ op.operation \in BuilderOperations /\ ~op.raised) =>
    Len(clauses) = Len(before.clauses) + 1

\* ------------------------------------------------------------------ C17

\* The builders whose schema is the table of the Query.
SchemaBuilders == {"Query", "PandasQL"}

\* C17: after select(cols) the schema holds exactly the columns cols, in
\* that order, and one Selection clause of those columns was appended.
C17_SelectReplacesSchema ==
  (op # NoneVal /\ op.operation = "select" /\ op.via \in SchemaBuilders
   /\ ~op.raised) =>
    /\ DictKeys(columns) = op.cols
    /\ clauses = Append(before.clauses, SelectionClause(ColumnReferences(op.cols)))

\* ------------------------------------------------------------------ C18

\* C18: extend(cols) with an alias that names a column of the schema fails;
\* otherwise the schema it leaves begins with the columns it found, each
\* with its type, and holds every alias.
C18_ExtendKeepsColumns ==
  (op # NoneVal /\ op.operation = "extend" /\ op.via \in SchemaBuilders) =>
    IF \E j \in 1..Len(op.aliases) : DictHas(before.columns, op.aliases[j])
    THEN op.raised
    ELSE ~op.raised =>
           /\ IsPrefix(before.columns, columns)
           /\ \A j \in 1..Len(op.aliases) : DictHas(columns, op.aliases[j])

\* ------------------------------------------------------------------ C19

\* C19: rename with two pairs of the same target fails; otherwise, for each
\* pair old -> new whose old is a column, the schema holds new with the type
\* old had and no longer holds old, and it has as many columns as before.
C19_RenameMovesColumns ==
  (op # NoneVal /\ op.operation = "rename" /\ op.via \in SchemaBuilders) =>
    IF \E j, k \in 1..Len(op.aliases) : j # k /\ op.aliases[j] = op.aliases[k]
    THEN op.raised
    ELSE ~op.raised =>
           /\ Len(columns) = Len(before.columns)
           /\ \A j \in 1..Len(op.olds) :
                DictHas(before.columns, op.olds[j]) =>
                  /\ DictHas(columns, op.aliases[j])
                  /\ DictGet(columns, op.aliases[j])
                       = DictGet(before.columns, op.olds[j])
                  /\ ~DictHas(columns, op.olds[j])

\* ------------------------------------------------------------------ C20

\* The names a list holds.
NamesOf(names) == {names[j] : j \in 1..Len(names)}

\* C20: after group_by(selections, aggregations) the columns of the schema
\* are exactly the selection columns and the aggregation aliases.
C20_GroupBySchema ==
  (op # NoneVal /\ op.operation = "group_by" /\ op.via \in SchemaBuilders
   /\ ~op.raised) =>
    NamesOf(DictKeys(columns)) = NamesOf(op.cols) \cup NamesOf(op.aliases)

\* ------------------------------------------------------------------ C21

\* C21: after a join call on a PandasQL or dsl builder (inner or left, a
\* well-formed condition, nothing renamed by the call): when no column
\* name is in both schemas the call has returned and the builder's columns
\* are the union of both; when some name is in both the call has raised.
C21_JoinMergesSchemas ==
  ( /\ op # NoneVal
    /\ op.operation = "join"
    /\ op.via \in {"PandasQL", "LegendQL"}
    /\ op.how \in {"inner", "left"}
    /\ op.olds = <<>>
    /\ op.error # "Badly formed Join" ) =>
      IF NamesOf(DictKeys(before.columns)) \cap NamesOf(op.cols) = {}
      THEN /\ ~op.raised
           /\ NamesOf(DictKeys(columns))
                = NamesOf(DictKeys(before.columns)) \cup NamesOf(op.cols)
      ELSE op.raised

\* ------------------------------------------------------------------ C22

\* C22: a select call that names a column absent from the schema it found
\* has raised, with the clause list and the columns as they were; so no
\* Selection clause is appended that names a column the schema before it
\* does not have.
C22_UnknownColumnFails ==
  ( /\ op # NoneVal
    /\ op.operation = "select"
    /\ \E j \in 1..Len(op.cols) : ~DictHas(before.columns, op.cols[j]) ) =>
      /\ op.raised
      /\ clauses = before.clauses
      /\ columns = before.columns

\* ------------------------------------------------------------------ C23

\* C23: whatever the builder has done, the Table the query was made from
\* and the schema of another query made from it have the columns they
\* started with.
C23_SchemasNotShared ==
  pc = "build" =>
    \A t \in InitialTables :
      clauses[1].table = t.table =>
        (passed_table = t.columns /\ sibling = t.columns)

\* ------------------------------------------------------------------ C29

\* C29: when a dsl join call has raised the overlapping-columns error, the
\* clause list and the schema's columns are as the call found them.
C29_FailedJoinLeavesBuilder ==
  ( /\ op # NoneVal
    /\ op.operation = "join"
    /\ op.via = "LegendQL"
    /\ op.error = "overlapping columns" ) =>
      /\ clauses = before.clauses
      /\ columns = before.columns

\* ------------------------------------------------------------------ C27

\* The positions of the clauses that get a relation of their own:
\* Selection, Filter, Extend with expressions, Join, GroupBy, OrderBy,
\* Limit, Offset and Distinct.
Emitting(cs) ==
  {p \in 1..Len(cs) :
     /\ cs[p].kind \in {"SelectionClause", "FilterClause", "ExtendClause",
                        "JoinClause", "GroupByClause", "OrderByClause",
                        "LimitClause", "OffsetClause", "DistinctClause"}
     /\ IsA(cs[p], "ExtendClause") => cs[p].expressions # <<>>}

EmptyExtend(clause) == IsA(clause, "ExtendClause") /\ clause.expressions = <<>>

\* The last position before p whose clause moves current_cte on: neither an
\* empty Extend nor a From clause (0: none).
RECURSIVE BeforeEmptyExtends(_, _)
BeforeEmptyExtends(cs, p) ==
  IF p = 1 THEN 0
  ELSE IF EmptyExtend(cs[p - 1]) \/ IsA(cs[p - 1], "FromClause")
       THEN BeforeEmptyExtends(cs, p - 1)
       ELSE p - 1

\* The relation name the loop held when it reached the empty Extend clauses
\* ending just before position p.
PrecedingRelation(cs, p) ==
  LET r == BeforeEmptyExtends(cs, p) IN
  IF r = 0 THEN Chars("base_query") ELSE QueryName(r - 1)

\* C28: in the DuckDB loop an Extend clause with no expressions emits no
\* relation; after it current_cte is still the relation that preceded it,
\* and the next clause that gets a relation reads FROM that relation; a
\* sequence of a From clause and empty Extend clauses only returns the
\* flat `SELECT * FROM table`.
C28_EmptyExtendIsSkipped ==
  DuckLowering =>
    /\ \A p \in 1..i :
         EmptyExtend(clauses[p]) =>
           \A k \in 1..Len(cte_queries) : CteName(cte_queries[k]) # QueryName(p - 1)
    /\ (i >= 1 /\ EmptyExtend(clauses[i])) =>
         current_cte = PrecedingRelation(clauses, i + 1)
    /\ \A p \in 2..i :
         (EmptyExtend(clauses[p - 1]) /\ p \in Emitting(clauses)) =>
             \E k \in 1..Len(cte_queries) :
               /\ CteName(cte_queries[k]) = QueryName(p - 1)
               /\ CteSource(cte_queries[k]) = PrecedingRelation(clauses, p)
    /\ ( /\ pc = "returned"
         /\ Len(clauses) >= 2
         /\ IsA(clauses[1], "FromClause")
         /\ \A p \in 2..Len(clauses) : EmptyExtend(clauses[p]) ) =>
           result = <<"SELECT", " ", "*", " ", "FROM", " ">> \o Chars(clauses[1].table)

\* C28 witness: [From, Extend(), Limit] has been lowered: the Limit's
\* relation reads FROM base_query.
C28_Witness ==
  /\ runtime = "duckdb" /\ pc = "returned"
  /\ Len(clauses) = 3
  /\ IsA(clauses[1], "FromClause")
  /\ EmptyExtend(clauses[2])
  /\ IsA(clauses[3], "LimitClause")
  /\ Len(cte_queries) = 2
  /\ CteSource(cte_queries[2]) = Chars("base_query")

\* ------------------------------------------------------------------ eval

\* The runtime classes whose eval opens a database connection.
Adapters == {"DuckDBRuntime", "DuckDBSqlGlotRuntime", "DuckDBSQLGlotDatabaseRuntime"}

\* The clause sequences handed to eval.
EvalInputs == RelowerInputs \cup {<<>>}

\* self.executable_to_string(clauses) of the adapter's class.
AdapterLower(a, cs) == IF a = "DuckDBRuntime" THEN DuckLower(cs) ELSE GlotLower(cs)

\* str.replace(pat, rep) on a long text: one recursion per occurrence, from
\* the leftmost one on.
RECURSIVE ReplaceAll(_, _, _)
ReplaceAll(text, pat, rep) ==
  IF ~Contains(text, pat) THEN text
  ELSE LET m == CHOOSE j \in 1..Len(text) :
                  /\ MatchAt(text, pat, j)
                  /\ \A k \in 1..(j - 1) : ~MatchAt(text, pat, k)
       IN SubSeq(text, 1, m - 1) \o rep
          \o ReplaceAll(SubSeq(text, m + Len(pat), Len(text)), pat, rep)

\* sql_query.replace(f"{from_clause.database}.{from_clause.table}", from_clause.table)
\* when there is a From clause with a database.
WithoutDatabase(cs, text) ==
  LET p == FirstOf(cs, "FromClause") IN
  IF p # 0 /\ cs[p].database # ""
  THEN ReplaceAll(text, Chars(cs[p].database) \o <<".">> \o Chars(cs[p].table),
                  Chars(cs[p].table))
  ELSE text

InitEval ==
  /\ InitHost
  /\ clauses = <<>>
  /\ runtime = "none"
  /\ pc = "eval"
  /\ i = 0
  /\ current_cte = <<>>
  /\ cte_queries = <<>>
  /\ query = NoneVal
  /\ join_todo = <<>>
  /\ applied = <<>>
  /\ skipped = <<>>
  /\ result = <<>>
  /\ first = NoneVal
  /\ between = FALSE
  /\ calls = 0
  /\ columns = <<>>
  /\ before = NoneVal
  /\ op = NoneVal
  /\ passed_table = <<>>
  /\ sibling = <<>>
  /\ made_by = "none"

\* A variant of EvalCall that opens the connection as the call begins.
EvalCallConnected(a, cs) ==
  /\ pc = "eval"
  /\ epc \in {"idle", "returned", "raised"}
  /\ calls < MaxCalls
  /\ calls' = calls + 1
  /\ adapter' = a
  /\ clauses' = cs
  /\ epc' = "lowering"
  /\ sql_query' = <<>>
  /\ con' = "open"
  /\ sent' = <<>>
  /\ raised_by' = "none"
  /\ UNCHANGED <<pc, lowerVars, first, between, buildVars, pandasVars>>

\* runtime.eval(clauses) is called: nothing is opened or sent yet.
EvalCall(a, cs) ==
  /\ pc = "eval"
  /\ epc \in {"idle", "returned", "raised"}
  /\ calls < MaxCalls
  /\ calls' = calls + 1
  /\ adapter' = a
  /\ clauses' = cs
  /\ epc' = "lowering"
  /\ sql_query' = <<>>
  /\ con' = "none"
  /\ sent' = <<>>
  /\ raised_by' = "none"
  /\ UNCHANGED <<pc, lowerVars, first, between, buildVars, pandasVars>>

\* sql = self.executable_to_string(clauses): the text, or the exception,
\* which leaves eval.
EvalLower ==
  /\ epc = "lowering"
  /\ LET out == AdapterLower(adapter, clauses) IN
     IF out.status = "raised"
     THEN /\ epc' = "raised"
          /\ raised_by' = "lowering"
          /\ UNCHANGED sql_query
     ELSE /\ epc' = "connect"
          /\ sql_query' = out.text
          /\ UNCHANGED raised_by
  /\ UNCHANGED <<clauses, pc, lowerVars, callVars, buildVars, pandasVars, adapter, con, sent>>

\* duckdb.connect(...): the connection, or the engine's exception, which
\* leaves eval. DuckDBRuntime then strips the database name from the text.
EvalConnect ==
  /\ epc = "connect"
  /\ \/ /\ con' = "open"
        /\ epc' = "execute"
        /\ sql_query' = IF adapter = "DuckDBRuntime"
                        THEN WithoutDatabase(clauses, sql_query)
                        ELSE sql_query
        /\ UNCHANGED raised_by
     \/ /\ epc' = "raised"
        /\ raised_by' = "connect"
        /\ UNCHANGED <<con, sql_query>>
  /\ UNCHANGED <<clauses, pc, lowerVars, callVars, buildVars, pandasVars, adapter, sent>>

\* con.sql(sql_query) and, in DuckDBRuntime, the fetch of the rows: the
\* engine accepts the query or rejects it. DuckDBRuntime goes on to its
\* finally block; the SQLGlot runtimes return the relation or let the
\* exception leave.
EvalExecute ==
  /\ epc = "execute"
  /\ sent' = Append(sent, sql_query)
  /\ \E accepted \in BOOLEAN :
       /\ raised_by' = IF accepted THEN "none" ELSE "engine"
       /\ epc' = IF adapter = "DuckDBRuntime" THEN "finally"
                 ELSE IF accepted THEN "returned" ELSE "raised"
  /\ UNCHANGED <<clauses, pc, lowerVars, callVars, buildVars, pandasVars, adapter, sql_query, con>>

\* DuckDBRuntime: finally: con.close(), then the return or the re-raise.
EvalFinally ==
  /\ epc = "finally"
  /\ con' = "closed"
  /\ epc' = IF raised_by = "none" THEN "returned" ELSE "raised"
  /\ UNCHANGED <<clauses, pc, lowerVars, callVars, buildVars, pandasVars, adapter, sql_query,
                 sent, raised_by>>

NextEval ==
  \/ \E a \in Adapters, cs \in EvalInputs : EvalCall(a, cs)
  \/ EvalLower
  \/ EvalConnect
  \/ EvalExecute
  \/ EvalFinally

SpecEval == InitEval /\ [][NextEval]_vars

\* ------------------------------------------------------------------ C24

\* C24: once eval has returned or raised, the connection the call opened
\* is not open.
C24_EvalClosesConnection ==
  epc \in {"returned", "raised"} => con # "open"

\* ------------------------------------------------------------------ C25

\* C25: while executable_to_string runs no connection has been opened and
\* no query sent by the call, and when it raised eval has raised with no
\* connection opened and no query sent.
C25_LoweringBeforeExecution ==
  /\ epc = "lowering" => (con = "none" /\ sent = <<>>)
  /\ (epc = "raised" /\ raised_by = "lowering") => (con = "none" /\ sent = <<>>)
  /\ sent # <<>> => sent = <<sql_query>>

\* C25 witness: eval of DuckDBRuntime on a sequence with no From clause
\* has raised out of the lowering.
C25_Witness ==
  /\ adapter = "DuckDBRuntime"
  /\ clauses # <<>>
  /\ FirstOf(clauses, "FromClause") = 0
  /\ epc = "raised"
  /\ raised_by = "lowering"

\* ------------------------------------------------------------------ pandas

MaxCycles == 2
MaxFrames == 4

\* The frames pandas_legend.from_df is called on: table and database name.
FrameSources == {[table |-> "employees", database |-> "company"]}

\* A DataFrame: the init_dataframe call it descends from, the frame it was
\* made from (0: the user's own), and whether every operation from that
\* call to it ran LegendQL's patch.
Frame(root, parent, patched) == [root |-> root, parent |-> parent, patched |-> patched]

\* Query.from_table(database, table)
QueryFromTable(database, table) == <<FromClause(database, table)>>

\* Whether the class attribute is LegendQL's patch.
IsPatched(cls, name) == attrs[Attr(cls, name)].fn = "patch"

\* get_context(df): the frame's entry in _dataframe_contexts; a DataFrame
\* with no entry goes through init_dataframe(df) first, which makes a new
\* Query on pandas_db.pandas_table. The result is the contexts and the
\* queries afterwards and the index of the frame's Query.
GetContext(f, ctxs, qs) ==
  IF ctxs[f] # 0
  THEN [contexts |-> ctxs, queries |-> qs, query |-> ctxs[f]]
  ELSE [contexts |-> [ctxs EXCEPT ![f] = Len(qs) + 1],
        queries |-> Append(qs, QueryFromTable("pandas_db", "pandas_table")),
        query |-> Len(qs) + 1]

InitPandas ==
  /\ InitIdle
  /\ attrs = ImportedAttrs
  /\ originals = ImportedOriginals
  /\ attrs_before = ImportedAttrs
  /\ patch_op = "none"
  /\ cycles = 0
  /\ frames = <<>>
  /\ contexts = <<>>
  /\ queries = <<>>
  /\ clauses = <<>>
  /\ runtime = "none"
  /\ pc = "pandas"
  /\ i = 0
  /\ current_cte = <<>>
  /\ cte_queries = <<>>
  /\ query = NoneVal
  /\ join_todo = <<>>
  /\ applied = <<>>
  /\ skipped = <<>>
  /\ result = <<>>
  /\ first = NoneVal
  /\ between = FALSE
  /\ calls = 0
  /\ columns = <<>>
  /\ before = NoneVal
  /\ op = NoneVal
  /\ passed_table = <<>>
  /\ sibling = <<>>
  /\ made_by = "none"

\* pandas_legend.init(): apply_patches().
ApplyPatches ==
  /\ pc = "pandas"
  /\ cycles < MaxCycles
  /\ cycles' = cycles + 1
  /\ patch_op' = "init"
  /\ attrs_before' = attrs
  /\ originals' =
       [a \in SavedAttrs |->
          IF a.cls = "DataFrame" /\ a.name = "loc"
            THEN Value("pandas", TRUE, 0)
          ELSE IF a.cls = "DataFrameGroupBy" /\ a.name = "__getitem__"
            THEN attrs[a]
          ELSE IF a.cls = "DataFrameGroupBy"
            THEN BoundTo(attrs[a])
          ELSE originals[a]]
  /\ attrs' =
       [a \in PatchedAttrs |->
          IF a.cls = "DataFrame" /\ a.name = "loc"
          THEN [attrs[a] EXCEPT !.wraps = @ + 1]
          ELSE LegendPatch]
  /\ UNCHANGED <<clauses, pc, lowerVars, callVars, buildVars, evalVars, frames,
                 contexts, queries>>

\* pandas_legend.cleanup(): remove_patches(). The last statement reads
\* _original_groupby_getitem, which raises NameError while no
\* apply_patches has defined it.
RemovePatches ==
  /\ pc = "pandas"
  /\ patch_op' = IF originals[Attr("DataFrameGroupBy", "__getitem__")] = Undefined
                 THEN "cleanup raised" ELSE "cleanup"
  /\ attrs' =
       [a \in PatchedAttrs |->
          IF a.cls = "DataFrame" /\ a.name = "loc" THEN attrs[a]
          ELSE IF a.cls = "DataFrame" THEN originals[a]
          ELSE IF a.cls = "DataFrameGroupBy"
                  /\ originals[a] # NoneVal /\ originals[a] # Undefined
            THEN originals[a]
          ELSE attrs[a]]
  /\ UNCHANGED <<clauses, pc, lowerVars, callVars, buildVars, evalVars, originals,
                 attrs_before, cycles, frames, contexts, queries>>

\* pandas_legend.from_df(df, table, database) on a new DataFrame of the
\* user: init_dataframe binds it and its copy, which it returns, to one
\* new Query.
InitDataframe(src) ==
  /\ pc = "pandas"
  /\ Len(frames) + 2 <= MaxFrames
  /\ LET df == Len(frames) + 1
         df_copy == Len(frames) + 2
         q == Len(queries) + 1
     IN /\ queries' = Append(queries, QueryFromTable(src.database, src.table))
        /\ frames' = frames \o <<Frame(df, 0, TRUE), Frame(df, df, TRUE)>>
        /\ contexts' = contexts \o <<q, q>>
  /\ UNCHANGED <<clauses, pc, lowerVars, callVars, buildVars, evalVars, attrs,
                 originals, attrs_before, patch_op, cycles>>

\* df.head(n): _patch_head while DataFrame.head is patched, Pandas' head
\* otherwise.
FrameHead(f, n) ==
  /\ pc = "pandas"
  /\ Len(frames) < MaxFrames
  /\ IF IsPatched("DataFrame", "head")
     THEN LET ctx == GetContext(f, contexts, queries) IN
          /\ queries' = [ctx.queries EXCEPT ![ctx.query] =
                           Append(@, LimitClause(IntegerLiteral(n)))]
          /\ contexts' = Append(ctx.contexts, ctx.query)
          /\ frames' = Append(frames, Frame(frames[f].root, f, frames[f].patched))
     ELSE /\ frames' = Append(frames, Frame(frames[f].root, f, FALSE))
          /\ contexts' = Append(contexts, 0)
          /\ UNCHANGED queries
  /\ UNCHANGED <<clauses, pc, lowerVars, callVars, buildVars, evalVars, attrs,
                 originals, attrs_before, patch_op, cycles>>

\* df.rename(...): _patch_rename while DataFrame.rename is patched. With
\* the mapping given as the keyword columns= it adds a Rename clause and
\* copies the context to the result; with the mapping given any other way
\* (a mapper with axis="columns") it does neither.
FrameRename(f, given, renames) ==
  /\ pc = "pandas"
  /\ Len(frames) < MaxFrames
  /\ IF IsPatched("DataFrame", "rename") /\ given
     THEN LET ctx == GetContext(f, contexts, queries) IN
          /\ queries' = [ctx.queries EXCEPT ![ctx.query] =
                           Append(@, RenameClause(RenameAliases(renames)))]
          /\ contexts' = Append(ctx.contexts, ctx.query)
          /\ frames' = Append(frames, Frame(frames[f].root, f, frames[f].patched))
     ELSE /\ frames' = Append(frames,
                         Frame(frames[f].root, f,
                               frames[f].patched /\ IsPatched("DataFrame", "rename")))
          /\ contexts' = Append(contexts, 0)
          /\ UNCHANGED queries
  /\ UNCHANGED <<clauses, pc, lowerVars, callVars, buildVars, evalVars, attrs,
                 originals, attrs_before, patch_op, cycles>>

\* pandas_legend.bind(df, runtime): bind_query reads the frame's Query
\* through get_context.
BindQuery(f) ==
  /\ pc = "pandas"
  /\ LET ctx == GetContext(f, contexts, queries) IN
     /\ contexts' = ctx.contexts
     /\ queries' = ctx.queries
     /\ clauses' = ctx.queries[ctx.query]
  /\ UNCHANGED <<pc, lowerVars, callVars, buildVars, evalVars, attrs, originals,
                 attrs_before, patch_op, cycles, frames>>

NextPandas ==
  \/ ApplyPatches
  \/ RemovePatches
  \/ \E src \in FrameSources : InitDataframe(src)
  \/ \E f \in 1..Len(frames), n \in {5} : FrameHead(f, n)
  \/ \E f \in 1..Len(frames), given \in BOOLEAN, renames \in RenameInputs :
       FrameRename(f, given, renames)
  \/ \E f \in 1..Len(frames) : BindQuery(f)

SpecPandas == InitPandas /\ [][NextPandas]_vars

\* ------------------------------------------------------------------ C26

\* C26: after cleanup() has run following an init(), every attribute
\* init() replaced has the value it had when that init() began.
C26_CleanupRestoresAttributes ==
  (patch_op = "cleanup" /\ cycles >= 1) =>
    \A a \in PatchedAttrs : attrs[a] = attrs_before[a]

\* ------------------------------------------------------------------ C30

\* C30: any two DataFrames that descend from one init_dataframe call
\* through patched operations only, and that have a context, have the
\* same Query object in it.
C30_FramesShareOneQuery ==
  \A f, g \in 1..Len(frames) :
    ( /\ frames[f].root = frames[g].root
      /\ frames[f].patched /\ frames[g].patched
      /\ contexts[f] # 0 /\ contexts[g] # 0 ) => contexts[f] = contexts[g]

====
